---- MODULE Spec2Model ----
(***************************************************************************)
(* Model of the fail-safe session recorder, src/public/recorder-failsafe.js *)
(*                                                                         *)
(* The recorder is a single-threaded script: every public call, DOM        *)
(* listener, timer callback and promise callback runs to completion.  One  *)
(* action of the model is one such handler.  Handlers are written as       *)
(* operators over a record s of the script's variables; a raised exception *)
(* is the field exc of that record, and the fields retOk / retId are the   *)
(* value a guarded call returns.                                           *)
(*                                                                         *)
(* The numeric limits of CONFIG are scaled down (see each definition); the *)
(* order relations between them that the code relies on are kept: the      *)
(* error threshold is below the queue bound less the batch size, so that   *)
(* flushes that keep throwing disable the recorder before the queue fills, *)
(* the load-time limit is below the retry limit, the batch size is at most *)
(* half the queue bound.                                                   *)
(***************************************************************************)
EXTENDS Integers, Sequences, FiniteSets, TLC

\* ---------------------------------------------------------------- constants
\* recorder-failsafe.js:24 (20 in the source)
MAX_GLOBAL_ERRORS == 3
\* recorder-failsafe.js:117, the modulus of the warning health event (5 in the source)
ERROR_WARNING_MODULUS == 2
\* recorder-failsafe.js:28
MAX_INIT_ATTEMPTS == 3
\* recorder-failsafe.js:34 (50 in the source)
BATCH_SIZE == 2
\* recorder-failsafe.js:38 (500 KB in the source); sizes are in abstract units
MAX_PAYLOAD_SIZE == 3
\* recorder-failsafe.js:39 (5000 in the source)
MAX_EVENT_QUEUE_SIZE == 4
\* recorder-failsafe.js:41 (50 in the source)
MAX_NETWORK_ERRORS == 3
\* recorder-failsafe.js:464, the modulus of the network warning (3 in the source)
NETWORK_WARNING_MODULUS == 2
\* recorder-failsafe.js:1754, the error count above which the load-time check
\* disables the recorder (5 in the source)
LOAD_ERROR_LIMIT == 1
\* recorder-failsafe.js:49
DEBUG == TRUE
\* CONFIG.INACTIVITY_TIMEOUT, in ticks of the clock
INACTIVITY_TIMEOUT == 2
\* src/unnamed/part_001: PERFORMANCE_CONFIG.MAX_BATCH_SIZE (50 in the
\* source), MAX_QUEUE_SIZE (200) and RATE_LIMIT_CONFIG.MAX_RETRIES (5)
\* src/unnamed/part_001: CONFIG.INACTIVITY_CHECK_INTERVAL, in ticks of the
\* clock (one minute in the source, against an INACTIVITY_TIMEOUT of thirty)
INACTIVITY_CHECK_INTERVAL == 1
MAX_BATCH_SIZE == 2
MAX_QUEUE_SIZE == 4
MAX_RETRIES == 3
\* PERFORMANCE_CONFIG.DEBOUNCE_DELAY, in ticks of the clock
DEBOUNCE_DELAY == 2
\* CONFIG.MAX_NETWORK_ERRORS of the rate-limited recorder
MAX_NETWORK_ERRORS_RL == 2
\* RATE_LIMIT_CONFIG.MIN_RETRY_DELAY, MAX_RETRY_DELAY (ms) and BACKOFF_FACTOR
MIN_RETRY_DELAY == 1000
MAX_RETRY_DELAY == 60000
BACKOFF_FACTOR == 2

\* ------------------------------------------------------------------- bounds
\* events accepted by captureEvent over one run (event identities 1..MaxEvents)
MaxEvents == 5
\* fetch requests awaiting their response at one time
MaxInFlight == 1
\* payloads handed to the transport over one run
MaxSent == 3
\* the error counter saturates this far above MAX_GLOBAL_ERRORS
ErrSlack == 1
\* identifiers generated over one run of the storage specification
MaxUuids == 3
\* requests of the rate-limited transport that are followed
MaxBatches == 2
\* calls of init that run setupEventListeners
MaxSetups == 2

VARIABLES
  \* script state (recorder-failsafe.js:23-27, 526-541, 78)
  globalErrorCount, recorderDisabled, networkErrorCount, initializationAttempts,
  isInitialized, projectId, userId, sessionId, visitorId, globalVisitorId,
  eventQueue, batchTimer, sessionData, sessionEnded, initializationPromise,
  inactivityTimer, visibilityTimer, healthReportTimer,
  \* closure state of setupEventListeners and the load-time safety check
  listeners, urlCheckPending, loadCheckPending,
  \* browser environment
  storage, hidden, consoleBroken, fetchBroken, storageBroken, inFlight,
  \* observation of what left the script
  sent, healthSent, truncations, disableCount, disableReason, endReason,
  originalPushCalled, escaped, lastOp, lastInit, nextId, nextUuid,
  \* time: what is left on the pending inactivity timer, and the time since
  \* the last activity of the user
  inactivityLeft, idle,
  \* script state that only src/unnamed/part_001 has (part_001:93, 796-801,
  \* 956-966), the requests of its transport, the runs of
  \* setupEventListeners and the configuration of the last init
  throttleTimers, rateLimitState, initializationState, batches, setupCount,
  lastConfig,
  \* observation of the guarded call a handler has made: the executions of its
  \* operation and what the call returned
  executions, returned,
  \* crypto.randomUUID of the host page (a polyfill) returns strings that are
  \* not of the 36-character format
  cryptoBroken

vars == << globalErrorCount, recorderDisabled, networkErrorCount, initializationAttempts,
           isInitialized, projectId, userId, sessionId, visitorId, globalVisitorId,
           eventQueue, batchTimer, sessionData, sessionEnded, initializationPromise,
           inactivityTimer, visibilityTimer, healthReportTimer,
           listeners, urlCheckPending, loadCheckPending,
           storage, hidden, consoleBroken, fetchBroken, storageBroken, inFlight,
           sent, healthSent, truncations, disableCount, disableReason, endReason,
           originalPushCalled, escaped, lastOp, lastInit, nextId, nextUuid,
                  inactivityLeft, idle, throttleTimers, rateLimitState,
                  initializationState, batches, setupCount, lastConfig,
                  executions, returned, cryptoBroken >>

\* ------------------------------------------------------------- value spaces
\* Identifier strings: kind "uuid" is a string of the 36-character format,
\* "fallback" the `fallback-<time>-<random>` string of generateUUID,
\* "garbage" any other stored string, "null" the JavaScript null.
NullId == [kind |-> "null", n |-> 0]
Uuid(n) == [kind |-> "uuid", n |-> n]
FallbackId(n) == [kind |-> "fallback", n |-> n]
GarbageId == [kind |-> "garbage", n |-> 0]

\* /^[0-9a-f]{8}-[0-9a-f]{4}-[0-9a-f]{4}-[0-9a-f]{4}-[0-9a-f]{12}$/i .test(id)
uuidRegexTest(id) == id.kind = "uuid"

\* JavaScript truthiness of an identifier string (null and "" are falsy)
Truthy(id) == id.kind # "null"

\* rateLimitState as declared and as resetRateLimitState leaves it
NoRateLimit == [retryCount |-> 0, consecutiveErrors |-> 0,
                lastRetryDelay |-> MIN_RETRY_DELAY]

\* parseInt(response.headers.get('Retry-After') || '0'): a negative number of
\* seconds, 0 for a header that is absent or "0" (NaN, for a date, is falsy
\* like 0), a few seconds, and more seconds than MAX_RETRY_DELAY
RetryAfters == {-1, 0, 3, 90}

\* calculateRetryDelay with rateLimitState.lastRetryDelay = last
calculateRetryDelay(last, retryAfter) ==
  IF retryAfter # 0
  THEN (IF retryAfter * 1000 < MAX_RETRY_DELAY THEN retryAfter * 1000
        ELSE MAX_RETRY_DELAY)
  ELSE LET delay == last * BACKOFF_FACTOR
           low == IF delay > MIN_RETRY_DELAY THEN delay ELSE MIN_RETRY_DELAY
       IN  IF low < MAX_RETRY_DELAY THEN low ELSE MAX_RETRY_DELAY

\* initializationState as declared; error is the set of violations that the
\* message of the stored error names
NotInitialized ==
  [configValidated |-> FALSE, idsGenerated |-> FALSE, initialized |-> FALSE,
   error |-> {}]

\* A value of batchSize or flushInterval in a configuration: absent, or a
\* number (its integer part and its first decimal).
Num(whole, frac) == [kind |-> "number", whole |-> whole, frac |-> frac]

Absent == [kind |-> "absent", whole |-> 0, frac |-> 0]

\* no init has been called
NoConfig ==
  [projectId |-> "absent", userId |-> "absent", debug |-> "absent",
   batchSize |-> Absent, flushInterval |-> Absent]

NoSessionData ==
  [set |-> FALSE, projectId |-> "null", sessionId |-> NullId, visitorId |-> NullId,
   globalVisitorId |-> NullId, userId |-> "null"]

\* timer handles: "null", "armed" (pending), "stale" (a handle whose timer has
\* fired or was cleared without the variable being reset)
TimerStates == {"null", "armed", "stale"}

\* serialized sizes of an event, in the unit of MAX_PAYLOAD_SIZE
Sizes == {1, 2, MAX_PAYLOAD_SIZE + 1}

\* what the host page passes to track: its serialized size and whether
\* JSON.stringify throws on it (a circular structure)
PlainData == [size |-> 1, bad |-> FALSE]

\* a payload that two of fill a batch beyond MAX_PAYLOAD_SIZE, one that is
\* beyond it alone, and a circular one
MidData == [size |-> 2, bad |-> FALSE]

BigData == [size |-> MAX_PAYLOAD_SIZE + 1, bad |-> FALSE]

BadData == [size |-> 1, bad |-> TRUE]

CustomData == {PlainData, MidData, BigData, BadData}

HealthTypes ==
  {"error_threshold_warning", "recorder_disabled", "disable_notification",
   "memory_limit_exceeded", "network_error_warning", "health_report"}

\* ------------------------------------------------------ the script's state
\* The record a handler works on: the variables, plus exc (an exception is
\* propagating), retOk / retId (the value of the last guarded call).
St ==
  [globalErrorCount |-> globalErrorCount, recorderDisabled |-> recorderDisabled,
   networkErrorCount |-> networkErrorCount,
   initializationAttempts |-> initializationAttempts,
   isInitialized |-> isInitialized, projectId |-> projectId, userId |-> userId,
   sessionId |-> sessionId, visitorId |-> visitorId,
   globalVisitorId |-> globalVisitorId, eventQueue |-> eventQueue,
   batchTimer |-> batchTimer, sessionData |-> sessionData,
   sessionEnded |-> sessionEnded, initializationPromise |-> initializationPromise,
   inactivityTimer |-> inactivityTimer, visibilityTimer |-> visibilityTimer,
   healthReportTimer |-> healthReportTimer,
   listeners |-> listeners, urlCheckPending |-> urlCheckPending,
   loadCheckPending |-> loadCheckPending,
   storage |-> storage, hidden |-> hidden, consoleBroken |-> consoleBroken,
   fetchBroken |-> fetchBroken, storageBroken |-> storageBroken,
   inFlight |-> inFlight,
   sent |-> sent, healthSent |-> [h \in HealthTypes |-> 0], truncations |-> 0,
   disableCount |-> disableCount, disableReason |-> disableReason,
   endReason |-> endReason, originalPushCalled |-> originalPushCalled,
   lastInit |-> lastInit, nextId |-> nextId, nextUuid |-> nextUuid,
   inactivityLeft |-> inactivityLeft, throttleTimers |-> throttleTimers,
   rateLimitState |-> rateLimitState, initializationState |-> initializationState,
   batches |-> batches, setupCount |-> setupCount, lastConfig |-> lastConfig,
   executions |-> 0, cryptoBroken |-> cryptoBroken,
   exc |-> FALSE, retOk |-> FALSE, retId |-> NullId]

\* The call of the handler named op that left the script in state r was an
\* activity of the user: a click, a navigation that was captured, the return
\* to the tab, or the init that started the session.
Activity(r, op) ==
  \/ op = "click"
  \/ (op = "checkUrlChange" /\ r.nextId > nextId)
  \/ (op = "visibilitychange" /\ ~r.hidden)
  \/ (op = "init" /\ ~isInitialized /\ r.isInitialized)

\* The handler named op has run to completion and left the script in state r;
\* an exception still propagating at that point reaches the host page.
\* lastOp, escaped, lastInit, originalPushCalled, healthSent (the health
\* requests issued, by type) and truncations (the overflow truncations of the
\* queue) describe that one call.
Commit(r, op) ==
  /\ globalErrorCount' = r.globalErrorCount
  /\ recorderDisabled' = r.recorderDisabled
  /\ networkErrorCount' = r.networkErrorCount
  /\ initializationAttempts' = r.initializationAttempts
  /\ isInitialized' = r.isInitialized
  /\ projectId' = r.projectId
  /\ userId' = r.userId
  /\ sessionId' = r.sessionId
  /\ visitorId' = r.visitorId
  /\ globalVisitorId' = r.globalVisitorId
  /\ eventQueue' = r.eventQueue
  /\ batchTimer' = r.batchTimer
  /\ sessionData' = r.sessionData
  /\ sessionEnded' = r.sessionEnded
  /\ initializationPromise' = r.initializationPromise
  /\ inactivityTimer' = r.inactivityTimer
  /\ visibilityTimer' = r.visibilityTimer
  /\ healthReportTimer' = r.healthReportTimer
  /\ listeners' = r.listeners
  /\ urlCheckPending' = r.urlCheckPending
  /\ loadCheckPending' = r.loadCheckPending
  /\ storage' = r.storage
  /\ hidden' = r.hidden
  /\ consoleBroken' = r.consoleBroken
  /\ fetchBroken' = r.fetchBroken
  /\ storageBroken' = r.storageBroken
  /\ inFlight' = r.inFlight
  /\ sent' = r.sent
  /\ healthSent' = r.healthSent
  /\ truncations' = r.truncations
  /\ disableCount' = r.disableCount
  /\ disableReason' = r.disableReason
  /\ endReason' = r.endReason
  /\ originalPushCalled' = (IF op = "pushState" THEN r.originalPushCalled ELSE "none")
  /\ lastInit' = (IF op = "init" THEN r.lastInit ELSE "none")
  /\ nextId' = r.nextId
  /\ nextUuid' = r.nextUuid
  /\ inactivityLeft' = r.inactivityLeft
  /\ idle' = (IF Activity(r, op) THEN 0 ELSE idle)
  /\ throttleTimers' = r.throttleTimers
  /\ rateLimitState' = r.rateLimitState
  /\ initializationState' = r.initializationState
  /\ batches' = r.batches
  /\ setupCount' = r.setupCount
  /\ lastConfig' = r.lastConfig
  /\ executions' = r.executions
  /\ cryptoBroken' = r.cryptoBroken
  /\ returned' = (IF op \notin {"safeExecute", "safeExecuteCritical"} THEN "none"
                  ELSE IF r.exc THEN "thrown"
                  ELSE IF r.retOk THEN "value" ELSE "null")
  /\ escaped' = r.exc
  /\ lastOp' = op

Throw(s) == [s EXCEPT !.exc = TRUE]

\* statement sequencing: G runs unless an exception is propagating out of r
Then(r, G(_)) == IF r.exc THEN r ELSE G(r)

\* const r = ...; G(r)
With(r, G(_)) == G(r)

ReturnNull(s) == [s EXCEPT !.retOk = FALSE, !.retId = NullId]

\* the guarded call that left r returns id
Return(r, id) == IF r.exc THEN r ELSE [r EXCEPT !.retOk = TRUE, !.retId = id]

\* a call of console.log / console.warn / console.error of the host page
ConsoleCall(s) == IF s.consoleBroken THEN Throw(s) ELSE s

\* if (CONFIG.DEBUG) console.warn(...)
DebugWarn(s) == IF DEBUG THEN ConsoleCall(s) ELSE s

\* ------------------------------------------------------- safety boundary
\* globalErrorCount++
CountError(s) ==
  [s EXCEPT !.globalErrorCount = IF @ < MAX_GLOBAL_ERRORS + ErrSlack THEN @ + 1 ELSE @]

RECURSIVE CatchError(_), SendHealthEvent(_, _), DisableRecorder(_, _)

\* The catch block of safeExecute up to the retry: count, log, circuit
\* breaker, warning health event.
CatchError(s) ==
  Then(Then(DebugWarn(CountError(s)),
            LAMBDA t: IF t.globalErrorCount >= MAX_GLOBAL_ERRORS
                      THEN DisableRecorder(t, "error_threshold_exceeded")
                      ELSE t),
       LAMBDA t: IF /\ t.globalErrorCount % ERROR_WARNING_MODULUS = 0
                    /\ t.globalErrorCount < MAX_GLOBAL_ERRORS
                 THEN SendHealthEvent(t, "error_threshold_warning")
                 ELSE t)

\* sendHealthEvent: a guarded request to the health-monitor endpoint
SendHealthEvent(s, eventType) ==
  IF s.recorderDisabled THEN s
  ELSE IF s.fetchBroken THEN CatchError(s)
  ELSE [s EXCEPT !.healthSent[eventType] = @ + 1]

\* disableRecorder: the flag, the console warning, restoreConsole and the
\* health event, the guarded post of the notification to the main endpoint
DisableRecorder(s, reason) ==
  IF s.recorderDisabled THEN s
  ELSE Then(Then(ConsoleCall([s EXCEPT !.recorderDisabled = TRUE,
                                       !.disableCount = @ + 1,
                                       !.disableReason = reason]),
                 LAMBDA t: SendHealthEvent(t, "recorder_disabled")),
            LAMBDA t: IF t.recorderDisabled THEN t
                      ELSE IF t.fetchBroken THEN CatchError(t)
                      ELSE [t EXCEPT !.healthSent["disable_notification"] = @ + 1])

\* the catch block of the retry of a critical operation
RetryCatch(s) == DebugWarn(CountError([s EXCEPT !.exc = FALSE]))

\* safeExecute(fn, context) with isCritical false: no retry
safeExecute(s, fn(_)) ==
  IF s.recorderDisabled THEN ReturnNull(s)
  ELSE With(fn(s),
            LAMBDA r: IF ~r.exc THEN r
                      ELSE Then(CatchError([r EXCEPT !.exc = FALSE]), ReturnNull))

\* safeExecute(fn, context, true): one retry while the error count is below
\* half the threshold
safeExecuteCritical(s, fn(_)) ==
  IF s.recorderDisabled THEN ReturnNull(s)
  ELSE With(fn(s),
            LAMBDA r:
              IF ~r.exc THEN r
              ELSE Then(CatchError([r EXCEPT !.exc = FALSE]),
                        LAMBDA c:
                          IF 2 * c.globalErrorCount < MAX_GLOBAL_ERRORS
                          THEN With(fn(c),
                                    LAMBDA r2: IF ~r2.exc THEN r2
                                               ELSE Then(RetryCatch(r2), ReturnNull))
                          ELSE ReturnNull(c)))

\* log returns nothing: the caller's pending value is kept
log(s) ==
  IF DEBUG /\ ~s.recorderDisabled
  THEN With(safeExecute(s, ConsoleCall),
            LAMBDA r: [r EXCEPT !.retOk = s.retOk, !.retId = s.retId])
  ELSE s

\* ------------------------------------------------------- storage, identifiers
\* localStorage holds four strings; the timestamp is kept by what the age test
\* of getOrCreateSessionId makes of it: "now" (Date.now() as just written),
\* "fresh" (older, age < INACTIVITY_TIMEOUT), "expired", "nan" (unparsable),
\* "null" (absent).
Stamp(k) == [kind |-> k, n |-> 0]

\* sessionAge < maxInactivity, with sessionAge = Date.now() - parseInt(stamp)
WithinInactivity(stamp) == stamp.kind \in {"now", "fresh"}

StorageKeys == {"session", "timestamp", "visitor", "globalVisitor"}

EmptyStorage == [k \in StorageKeys |-> NullId]

safeLocalStorageGet(s, key) ==
  safeExecute(s, LAMBDA t: IF t.storageBroken THEN Throw(t)
                           ELSE [t EXCEPT !.retOk = TRUE, !.retId = t.storage[key]])

safeLocalStorageSet(s, key, value) ==
  safeExecute(s, LAMBDA t: IF t.storageBroken THEN Throw(t)
                           ELSE [t EXCEPT !.retOk = TRUE, !.storage[key] = value])

safeLocalStorageRemove(s, key) ==
  safeExecute(s, LAMBDA t: IF t.storageBroken THEN Throw(t)
                           ELSE [t EXCEPT !.retOk = TRUE, !.storage[key] = NullId])

generateUUID(s) ==
  With(safeExecuteCritical(s, LAMBDA t: [t EXCEPT !.retOk = TRUE,
                                                  !.retId = IF t.cryptoBroken
                                                            THEN GarbageId
                                                            ELSE Uuid(t.nextUuid),
                                                  !.nextUuid = @ + 1]),
       LAMBDA r: IF r.exc \/ Truthy(r.retId) THEN r
                 ELSE [r EXCEPT !.retId = FallbackId(r.nextUuid), !.nextUuid = @ + 1])

\* the part of getOrCreateVisitorIds that handles one of its two keys; the
\* identifier it settles on is left in retId
VisitorIdFor(s, key) ==
  Then(safeLocalStorageGet(s, key),
       LAMBDA got:
         IF Truthy(got.retId) /\ uuidRegexTest(got.retId) THEN got
         ELSE Then(Then(Then(IF Truthy(got.retId) /\ DEBUG THEN log(got) ELSE got,
                             generateUUID),
                        LAMBDA first: IF uuidRegexTest(first.retId) THEN first
                                      ELSE Then(log(first), generateUUID)),
                   LAMBDA id: Then(Then(safeLocalStorageSet(id, key, id.retId), log),
                                   LAMBDA stored: [stored EXCEPT !.retId = id.retId])))

\* getOrCreateVisitorIds leaves its result in visitorId / globalVisitorId of
\* the record, where init assigns it
getOrCreateVisitorIds(s) ==
  With(safeExecuteCritical(s,
         LAMBDA t:
           Then(VisitorIdFor(t, "visitor"),
                LAMBDA v:
                  Then(VisitorIdFor(v, "globalVisitor"),
                       LAMBDA g: [g EXCEPT !.visitorId = v.retId,
                                           !.globalVisitorId = g.retId,
                                           !.retOk = TRUE]))),
       LAMBDA r:
         IF r.exc \/ r.retOk THEN r
         ELSE Then(generateUUID(r),
                   LAMBDA v:
                     Then(generateUUID(v),
                          LAMBDA g: [g EXCEPT !.visitorId = v.retId,
                                              !.globalVisitorId = g.retId])))

\* the new identifier is returned without being stored
StoreNothing(s, id) == Return(s, id)

\* getOrCreateSessionId: the new identifier and its timestamp are stored
StoreSession(s, id) ==
  Return(Then(Then(safeLocalStorageSet(s, "session", id),
                   LAMBDA t: safeLocalStorageSet(t, "timestamp", Stamp("now"))),
              log),
         id)

\* getOrCreateSessionId: a new identifier, generated again once when it fails
\* the format test
MintSession(s) ==
  Then(generateUUID(s),
       LAMBDA first:
         IF uuidRegexTest(first.retId) THEN StoreSession(first, first.retId)
         ELSE Then(Then(log(first), generateUUID),
                   LAMBDA second:
                     IF ~uuidRegexTest(second.retId) THEN Throw(second)
                     ELSE StoreSession(second, second.retId)))

\* getOrCreateSessionId: the stored session is dropped
ClearSession(s) ==
  Then(Then(log(s), LAMBDA t: safeLocalStorageRemove(t, "session")),
       LAMBDA t: safeLocalStorageRemove(t, "timestamp"))

getOrCreateSessionId(s) ==
  With(safeExecuteCritical(s,
         LAMBDA t:
           Then(safeLocalStorageGet(t, "session"),
                LAMBDA existingSessionId:
                  Then(safeLocalStorageGet(existingSessionId, "timestamp"),
                       LAMBDA existingTimestamp:
                         IF /\ Truthy(existingSessionId.retId)
                            /\ Truthy(existingTimestamp.retId)
                         THEN IF ~uuidRegexTest(existingSessionId.retId)
                              THEN Then(ClearSession(existingTimestamp), MintSession)
                              ELSE IF WithinInactivity(existingTimestamp.retId)
                              THEN Return(Then(log(existingTimestamp),
                                               LAMBDA u: safeLocalStorageSet(
                                                           u, "timestamp", Stamp("now"))),
                                          existingSessionId.retId)
                              ELSE Then(ClearSession(existingTimestamp), MintSession)
                         ELSE MintSession(existingTimestamp)))),
       LAMBDA r: IF r.exc \/ Truthy(r.retId) THEN r ELSE generateUUID(r))

\* sessionId = getOrCreateSessionId(projectId)
SessionIdCall(s) ==
  With(getOrCreateSessionId(s),
       LAMBDA r: IF r.exc THEN r ELSE [r EXCEPT !.sessionId = r.retId])

\* ------------------------------------------------------ activity and timers
\* a timer that is pending is left to run instead of being replaced
startInactivityTimerOnce(s) ==
  IF s.recorderDisabled THEN s
  ELSE safeExecute(s, LAMBDA t: IF t.inactivityTimer = "armed" THEN t
                                ELSE [t EXCEPT !.inactivityTimer = "armed",
                                               !.inactivityLeft = INACTIVITY_TIMEOUT])

startInactivityTimer(s) ==
  IF s.recorderDisabled THEN s
  ELSE safeExecute(s, LAMBDA t: [t EXCEPT !.inactivityTimer = "armed",
                                          !.inactivityLeft = INACTIVITY_TIMEOUT])

updateActivity(s) ==
  IF s.recorderDisabled THEN s
  ELSE safeExecute(s, startInactivityTimer)

\* ---------------------------------------------------------------- transport
\* An event: its identity (the order of acceptance), its type, its serialized
\* size, whether JSON.stringify throws on it (a circular custom payload), and
\* the data object spread into it (0 is the default {}).
Event(id, eventType, size, bad) ==
  [id |-> id, eventType |-> eventType, size |-> size, bad |-> bad, data |-> 0]

RECURSIVE SizeOf(_)
SizeOf(events) ==
  IF events = << >> THEN 0 ELSE Head(events).size + SizeOf(Tail(events))

Stringifiable(events) == \A i \in 1..Len(events) : ~events[i].bad

\* the identities of the events of a payload, in payload order
RECURSIVE IdsOf(_)
IdsOf(events) ==
  IF events = << >> THEN << >> ELSE << Head(events).id >> \o IdsOf(Tail(events))

\* the event types of a payload
TypesOf(events) == { events[i].eventType : i \in 1..Len(events) }

\* The payload reaches the transport: it is beyond recall from here on.  Of a
\* handed payload the model keeps the identities and types of its events, its
\* serialized size, the delivery mode and whether its identifiers are well
\* formed.
Hand(s, events, beacon) ==
  [s EXCEPT !.sent = Append(@, [ids |-> IdsOf(events), types |-> TypesOf(events),
                                events |-> [i \in 1..Len(events) |->
                                              [id |-> events[i].id,
                                               eventType |-> events[i].eventType,
                                               data |-> events[i].data]],
                                size |-> SizeOf(events), beacon |-> beacon,
                                wellFormed |->
                                  /\ uuidRegexTest(s.sessionData.sessionId)
                                  /\ uuidRegexTest(s.sessionData.visitorId)
                                  /\ uuidRegexTest(s.sessionData.globalVisitorId)])]

\* safeFetch up to the return of the promise; retOk says whether the request
\* was issued (otherwise the caller gets the rejected promise)
safeFetch(s, events) ==
  safeExecute(s, LAMBDA t: IF t.fetchBroken THEN Throw(t)
                           ELSE [Hand(t, events, FALSE) EXCEPT
                                   !.retOk = TRUE,
                                   !.inFlight = IF @ < MaxInFlight THEN @ + 1 ELSE @])

sendBatchData(s, events, useBeacon) ==
  IF s.recorderDisabled THEN s
  ELSE Then(log(s),
            LAMBDA t: IF useBeacon
                      THEN safeExecute(t, LAMBDA u: log(Hand(u, events, TRUE)))
                      ELSE safeFetch(t, events))

\* eventQueue.splice(0, halfSize)
FirstHalf(q) == SubSeq(q, 1, Len(q) \div 2)

\* eventQueue.slice(0, halfSize) in place of splice: the queue keeps the half
\* that was handed over
SecondHalfKept(q) == q

\* what eventQueue.splice(0, halfSize) leaves in the queue
SecondHalf(q) == SubSeq(q, Len(q) \div 2 + 1, Len(q))

\* the regeneration of one identifier of sessionData that fails the format test
RegenerateId(s, field) ==
  IF uuidRegexTest(s.sessionData[field]) THEN s
  ELSE Then(generateUUID(s),
            LAMBDA g: [g EXCEPT !.sessionData[field] = g.retId, ![field] = g.retId])

RegenerateIds(s) ==
  Then(Then(RegenerateId(s, "sessionId"), LAMBDA t: RegenerateId(t, "visitorId")),
       LAMBDA t: RegenerateId(t, "globalVisitorId"))

sendBatch(s, useBeacon) ==
  IF Len(s.eventQueue) = 0 \/ s.recorderDisabled THEN s
  ELSE safeExecute(s,
         LAMBDA t:
           IF \/ ~t.sessionData.set
              \/ t.sessionData.projectId = "null"
              \/ ~Truthy(t.sessionData.sessionId)
           THEN log(t)
           ELSE IF \/ ~Truthy(t.sessionData.visitorId)
                   \/ ~Truthy(t.sessionData.globalVisitorId)
           THEN log(t)
           ELSE Then(RegenerateIds(t),
                     LAMBDA u:
                       \* JSON.stringify(payload)
                       IF ~Stringifiable(u.eventQueue) THEN Throw(u)
                       ELSE IF SizeOf(u.eventQueue) > MAX_PAYLOAD_SIZE
                       THEN Then(log(u),
                                 LAMBDA v:
                                   sendBatchData(
                                     [v EXCEPT !.eventQueue = SecondHalf(v.eventQueue)],
                                     FirstHalf(v.eventQueue), useBeacon))
                       ELSE Then(sendBatchData(u, u.eventQueue, useBeacon),
                                 LAMBDA v: [v EXCEPT !.eventQueue = << >>,
                                                     !.batchTimer = "null"])))

\* ------------------------------------------------------------------ capture
ActivityTypes == {"click", "scroll", "input", "navigation"}

\* eventQueue.slice(0, n): the oldest events are kept instead of the newest
SliceFirst(q, n) == IF Len(q) <= n THEN q ELSE SubSeq(q, 1, n)

\* eventQueue.slice(-n)
SliceLast(q, n) == IF Len(q) <= n THEN q ELSE SubSeq(q, Len(q) - n + 1, Len(q))

\* captureEvent without its memory protection
TruncateNothing(s) == s

\* the memory protection at the head of captureEvent
Truncate(s) ==
  IF Len(s.eventQueue) >= MAX_EVENT_QUEUE_SIZE
  THEN Then(Then(log(s),
                 LAMBDA t: [t EXCEPT
                              !.eventQueue = SliceLast(@, MAX_EVENT_QUEUE_SIZE \div 2),
                              !.truncations = @ + 1]),
            LAMBDA t: SendHealthEvent(t, "memory_limit_exceeded"))
  ELSE s

\* the flush decision at the end of captureEvent
FlushOrArm(s) ==
  IF Len(s.eventQueue) >= BATCH_SIZE THEN sendBatch(s, FALSE)
  ELSE IF s.batchTimer = "null" THEN [s EXCEPT !.batchTimer = "armed"]
  ELSE s

captureEvent(s, eventType, size, bad) ==
  IF \/ ~s.isInitialized
     \/ ~Truthy(s.sessionId)
     \/ s.sessionEnded
     \/ s.recorderDisabled
  THEN s
  ELSE safeExecute(s,
         LAMBDA t:
           Then(Then(Then(Then(Truncate(t),
                               LAMBDA u: [u EXCEPT
                                            !.eventQueue =
                                              Append(@, Event(u.nextId, eventType,
                                                              size, bad)),
                                            !.nextId = @ + 1]),
                          log),
                     LAMBDA u: IF eventType \in ActivityTypes THEN updateActivity(u)
                               ELSE u),
                FlushOrArm))

\* ---------------------------------------------------------- session end
\* endSession without the cancellation of its timers
KeepTimers(s) == s

\* endSession: clearTimeout on the three timers, and their handles set to null
ClearTimers(s) ==
  [s EXCEPT !.inactivityTimer = "null", !.visibilityTimer = "null",
            !.batchTimer = "null"]

endSession(s, reason) ==
  IF s.sessionEnded \/ s.recorderDisabled THEN s
  ELSE safeExecute(s,
         LAMBDA t:
           Then(Then(Then(log([t EXCEPT !.sessionEnded = TRUE, !.endReason = reason]),
                          LAMBDA u: captureEvent(u, "session_end", 1, FALSE)),
                     LAMBDA u: IF Len(u.eventQueue) > 0 THEN sendBatch(u, TRUE) ELSE u),
                ClearTimers))

\* handleVisibilityChange that leaves the hidden-tab timer pending when the
\* page becomes visible
handleVisibilityChangeKeeping(s) ==
  IF s.sessionEnded \/ s.recorderDisabled THEN s
  ELSE safeExecute(s,
         LAMBDA t:
           Then(IF t.hidden
                THEN Then(log(t), LAMBDA u: [u EXCEPT !.visibilityTimer = "armed"])
                ELSE Then(log(t), updateActivity),
                LAMBDA u: captureEvent(u, "visibility", 1, FALSE)))

handleVisibilityChange(s) ==
  IF s.sessionEnded \/ s.recorderDisabled THEN s
  ELSE safeExecute(s,
         LAMBDA t:
           Then(IF t.hidden
                THEN Then(log(t), LAMBDA u: [u EXCEPT !.visibilityTimer = "armed"])
                ELSE Then(Then(log(t), LAMBDA u: [u EXCEPT !.visibilityTimer = "null"]),
                          updateActivity),
                LAMBDA u: captureEvent(u, "visibility", 1, FALSE)))

\* ------------------------------------------------------------- public API
\* The argument of init: "nullcfg" is init(null), "none" a configuration
\* without projectId, "p1" / "p2" configurations naming a project.
Configs == {"nullcfg", "none", "p1", "p2"}

\* config.projectId
ProjectOf(config) == IF config \in {"p1", "p2"} THEN config ELSE "null"

\* init without its final validation of the identifiers
ValidateNothing(s) == s

\* init: the final validation of the three identifiers
ValidateIds(s) ==
  IF /\ uuidRegexTest(s.sessionId)
     /\ uuidRegexTest(s.visitorId)
     /\ uuidRegexTest(s.globalVisitorId)
  THEN s ELSE Throw(s)

\* the guarded body of the promise executor of init: the assignments, the
\* identifiers, sessionData, the validation of the identifiers,
\* cleanup_old_sessions (it enumerates localStorage; the record of this
\* project was just written, so it removes nothing the model holds), the
\* session_start event, the listeners, the inactivity timer, the flags
InitBody(s, cfgProject) ==
  Then(Then(Then(Then(Then(Then(Then(Then(Then(Then(Then(
    [s EXCEPT !.projectId = cfgProject, !.userId = "null", !.sessionEnded = FALSE],
    LAMBDA t: Then(getOrCreateSessionId(t), LAMBDA r: [r EXCEPT !.sessionId = r.retId])),
    getOrCreateVisitorIds),
    LAMBDA t: [t EXCEPT !.sessionData =
                 [set |-> TRUE, projectId |-> t.projectId,
                  sessionId |-> t.sessionId, visitorId |-> t.visitorId,
                  globalVisitorId |-> t.globalVisitorId, userId |-> t.userId]]),
    ValidateIds),
    LAMBDA t: safeExecute(t, LAMBDA u: IF u.storageBroken THEN Throw(u) ELSE u)),
    log),
    LAMBDA t: captureEvent(t, "session_start", 1, FALSE)),
    LAMBDA t: IF t.recorderDisabled THEN t
              ELSE safeExecute(t, LAMBDA u: [u EXCEPT !.listeners = TRUE])),
    updateActivity),
    LAMBDA t: [t EXCEPT !.isInitialized = TRUE, !.initializationPromise = "null"]),
    LAMBDA t: Then(log(t), LAMBDA r: [r EXCEPT !.retOk = TRUE]))

\* what the caller of init gets: "resolved" or "rejected" (the promise it
\* returns), left in lastInit; a thrown exception is exc
InitResult(s, res) == IF s.exc THEN s ELSE [s EXCEPT !.lastInit = res]

\* WhysRecorder.init from the validation of config.projectId on: the promise
\* whose executor runs the guarded body.  Any read of config.projectId throws
\* a TypeError on init(null); a throw inside the executor rejects the promise.
InitFresh(s, config) ==
  IF config = "nullcfg" THEN Throw(s)
  ELSE IF ProjectOf(config) = "null" THEN InitResult(ConsoleCall(s), "rejected")
  ELSE With(With(safeExecuteCritical(s, LAMBDA u: InitBody(u, ProjectOf(config))),
                 LAMBDA r: IF r.exc \/ r.retOk THEN r ELSE ConsoleCall(r)),
            LAMBDA r: [r EXCEPT
                         !.exc = FALSE,
                         !.initializationPromise =
                           IF ~r.exc /\ r.retOk THEN "resolved" ELSE "rejected",
                         !.lastInit =
                           IF ~r.exc /\ r.retOk THEN "resolved" ELSE "rejected"])

\* WhysRecorder.init past its check of recorderDisabled
InitEnabled(s, config) ==
  With([s EXCEPT !.initializationAttempts = @ + 1],
       LAMBDA n:
         IF n.initializationAttempts > MAX_INIT_ATTEMPTS
         THEN InitResult(DisableRecorder(n, "max_init_attempts_exceeded"), "rejected")
         ELSE IF n.initializationPromise # "null"
         THEN InitResult(log(n), n.initializationPromise)
         ELSE IF n.isInitialized
         THEN Then(Then(log(n),
                        LAMBDA t: IF config = "nullcfg" THEN Throw(t) ELSE t),
                   LAMBDA r:
                     IF ProjectOf(config) # "null" /\ ProjectOf(config) = r.projectId
                     THEN InitResult(log(r), "resolved")
                     ELSE IF ProjectOf(config) # "null"
                     THEN Then(Then(log(r),
                                    LAMBDA u: [u EXCEPT !.isInitialized = FALSE,
                                                        !.sessionEnded = FALSE]),
                               LAMBDA u: InitFresh(u, config))
                     ELSE InitResult(r, "resolved"))
         ELSE InitFresh(n, config))

\* init that starts over on a disabled recorder
InitCallReenabling(s, config) ==
  InitEnabled([s EXCEPT !.recorderDisabled = FALSE], config)

\* WhysRecorder.init
InitCall(s, config) ==
  IF s.recorderDisabled THEN InitResult(ConsoleCall(s), "resolved")
  ELSE InitEnabled(s, config)

UserIds == {"u1"}

IdentifyCall(s, newUserId) ==
  IF s.recorderDisabled \/ ~s.isInitialized THEN s
  ELSE safeExecute(s,
         LAMBDA t:
           Then(captureEvent([t EXCEPT !.userId = newUserId,
                                       !.sessionData.userId =
                                         IF t.sessionData.set THEN newUserId ELSE @],
                             "identify", 1, FALSE),
                log))

TrackCall(s, size, bad) ==
  IF s.recorderDisabled \/ ~s.isInitialized THEN s
  ELSE safeExecute(s, LAMBDA t: Then(captureEvent(t, "custom", size, bad), log))

SendBatchCall(s) == IF ~s.recorderDisabled THEN sendBatch(s, FALSE) ELSE s

DisableCall(s) == DisableRecorder(s, "manual")

\* a timer that clearTimeout has cancelled keeps its handle in the variable
Cancelled(timer) == IF timer = "null" THEN "null" ELSE "stale"

EmergencyCleanRestartCall(s) ==
  safeExecute(s,
    LAMBDA t: IF t.storageBroken THEN Throw(t)
              ELSE ConsoleCall([t EXCEPT !.storage = EmptyStorage,
                                         !.sessionEnded = TRUE,
                                         !.inactivityTimer = Cancelled(@),
                                         !.visibilityTimer = Cancelled(@),
                                         !.batchTimer = Cancelled(@)]))

\* -------------------------------------------------- listeners and callbacks
ClickHandler(s) ==
  safeExecute(s, LAMBDA t: captureEvent(t, "click", 1, FALSE))

\* the handlers without their test of sessionEnded, ending the session again
UnloadHandlerAgain(s, reason) ==
  safeExecute(s, LAMBDA t: endSession([t EXCEPT !.sessionEnded = FALSE], reason))

UnloadHandler(s, reason) ==
  safeExecute(s, LAMBDA t: IF ~t.sessionEnded THEN endSession(t, reason) ELSE t)

\* the replacement of history.pushState / history.replaceState
PushStateOverride(s) ==
  safeExecute(s, LAMBDA t: [t EXCEPT !.originalPushCalled = "yes",
                                     !.urlCheckPending = TRUE])

checkUrlChange(s, changed) ==
  safeExecute(s, LAMBDA t: IF changed THEN captureEvent(t, "navigation", 1, FALSE)
                           ELSE t)

InactivityCallback(s) ==
  IF ~s.sessionEnded THEN endSession(s, "inactivity_timeout") ELSE s

VisibilityCallback(s) ==
  IF s.hidden /\ ~s.sessionEnded THEN endSession(s, "tab_hidden_timeout") ELSE s

BatchCallback(s) == sendBatch(s, FALSE)

reportHealthMetrics(s) ==
  IF s.recorderDisabled THEN s
  ELSE safeExecute(s,
         LAMBDA t:
           Then(Then(SendHealthEvent(t, "health_report"),
                     LAMBDA u: captureEvent(u, "health_report", 1, FALSE)),
                log))

LoadCheckCallback(s) ==
  IF s.globalErrorCount > LOAD_ERROR_LIMIT
  THEN DisableRecorder(s, "initialization_errors")
  ELSE s

\* networkErrorCount++
Bump(n) == IF n < MAX_NETWORK_ERRORS + ErrSlack THEN n + 1 ELSE n

ResponseKinds == {"ok", "http_error", "failure"}

\* sendHealthEvent('network_error_warning') on every multiple of the modulus
NetworkWarning(s) ==
  IF s.networkErrorCount % NETWORK_WARNING_MODULUS = 0
  THEN SendHealthEvent(s, "network_error_warning")
  ELSE s

\* .catch of safeFetch for an error that was not counted yet
FetchCatch(s) ==
  Then(DebugWarn([s EXCEPT !.exc = FALSE, !.networkErrorCount = Bump(@)]),
       LAMBDA t: IF t.networkErrorCount >= MAX_NETWORK_ERRORS
                 THEN DisableRecorder(t, "network_error_threshold")
                 ELSE NetworkWarning(t))

\* a success that leaves the count of failures as it was
KeepNetworkErrors(s) == s

\* networkErrorCount = 0 on a response with response.ok
ResetNetworkErrors(s) == [s EXCEPT !.networkErrorCount = 0]

\* .then of safeFetch, and its .catch for the HTTP error that .then throws
FetchThen(s, kind) ==
  IF kind = "ok" THEN ResetNetworkErrors(s)
  ELSE With([s EXCEPT !.networkErrorCount = Bump(@)],
            LAMBDA n:
              IF n.networkErrorCount >= MAX_NETWORK_ERRORS
              THEN With(DisableRecorder(n, "network_error_threshold"),
                        LAMBDA d: IF d.exc THEN FetchCatch(d) ELSE d)
              ELSE With(NetworkWarning(n),
                        LAMBDA w: IF w.exc THEN FetchCatch(w) ELSE DebugWarn(w)))

\* the promise callbacks of safeFetch and sendBatchData for one response:
\* sendBatchData logs the result, or logs the failure; an exception left at
\* the end of the chain is an unhandled rejection
ResponseCallbacks(s, kind) ==
  With(With(IF kind = "failure" THEN FetchCatch(s) ELSE FetchThen(s, kind),
            LAMBDA r:
              IF \/ r.exc
                 \/ kind = "failure"
                 \/ (kind = "http_error" /\ r.networkErrorCount < MAX_NETWORK_ERRORS)
              THEN log([r EXCEPT !.exc = FALSE])
              ELSE IF kind = "ok" /\ DEBUG
              THEN With(log(r),
                        LAMBDA l: IF l.exc THEN log([l EXCEPT !.exc = FALSE]) ELSE l)
              ELSE r),
       LAMBDA l: [l EXCEPT !.exc = FALSE])

\* ============================================== src/unnamed/part_001
\* The rate-limited recorder.  It declares the same variables as
\* recorder-failsafe.js (part_001:64-78) and functions of the same names; the
\* names of its functions carry the suffix RL here.  Its CONFIG.DEBUG is false
\* (part_001:49), so its log does nothing; it has no safeExecute, and guards
\* its accesses to localStorage with try / catch.

\* generateUUID: crypto.randomUUID() or the fallback of the same format
generateUUIDRL(s) == [s EXCEPT !.retId = Uuid(s.nextUuid), !.nextUuid = @ + 1]

\* getOrCreateVisitorIds for one of its two keys; the identifier is left in
\* the field that initializeRecorder assigns it to
VisitorIdRL(s, key, field) ==
  IF uuidRegexTest(s.storage[key]) THEN [s EXCEPT ![field] = s.storage[key]]
  ELSE With(generateUUIDRL(s),
            LAMBDA g: [g EXCEPT !.storage[key] = g.retId, ![field] = g.retId])

\* an error of localStorage takes getOrCreateVisitorIds to its catch block,
\* which returns two new identifiers and stores none
getOrCreateVisitorIdsRL(s) ==
  IF s.storageBroken
  THEN With(generateUUIDRL(s),
            LAMBDA v: With(generateUUIDRL([v EXCEPT !.visitorId = v.retId]),
                           LAMBDA g: [g EXCEPT !.globalVisitorId = g.retId]))
  ELSE VisitorIdRL(VisitorIdRL(s, "visitor", "visitorId"),
                   "globalVisitor", "globalVisitorId")

\* the session identifier is left in retId
getOrCreateSessionIdRL(s) ==
  IF s.storageBroken THEN generateUUIDRL(s)
  ELSE IF /\ Truthy(s.storage["session"])
          /\ s.storage["timestamp"] # NullId
          /\ uuidRegexTest(s.storage["session"])
          /\ WithinInactivity(s.storage["timestamp"])
  THEN [s EXCEPT !.storage["timestamp"] = Stamp("now"),
                 !.retId = s.storage["session"]]
  ELSE With(generateUUIDRL(s),
            LAMBDA g: [g EXCEPT !.storage["session"] = g.retId,
                                !.storage["timestamp"] = Stamp("now")])

\* a timeout (not an interval) of INACTIVITY_CHECK_INTERVAL
startInactivityTimerRL(s) ==
  IF s.sessionEnded THEN s
  ELSE [s EXCEPT !.inactivityTimer = "armed",
                 !.inactivityLeft = INACTIVITY_CHECK_INTERVAL]

updateActivityRL(s) ==
  IF s.sessionEnded THEN s
  ELSE startInactivityTimerRL(
         IF ~s.storageBroken /\ s.projectId # "null"
         THEN [s EXCEPT !.storage["timestamp"] = Stamp("now")]
         ELSE s)

\* rateLimitState.retryCount++ and consecutiveErrors++, saturating
CountRetry(n) == IF n < MAX_RETRIES + ErrSlack THEN n + 1 ELSE n

\* sendBatchData: the beacon, or sendBatchWithRetry, which issues its first
\* fetch when it is called (the first MaxBatches requests are followed)
sendBatchDataRL(s, events, useBeacon) ==
  IF useBeacon THEN Hand(s, events, TRUE)
  ELSE IF Len(s.batches) < MaxBatches
  THEN [Hand(s, events, FALSE) EXCEPT
          !.batches = Append(@, [tx |-> 1, status |-> "inflight", only429 |-> TRUE,
                                 retryAfter |-> 0, delay |-> 0])]
  ELSE Hand(s, events, FALSE)

sendBatchRL(s, useBeacon) ==
  IF Len(s.eventQueue) = 0 THEN s
  ELSE IF \/ ~s.sessionData.set
          \/ s.sessionData.projectId = "null"
          \/ ~Truthy(s.sessionData.sessionId)
          \/ ~Truthy(s.sessionData.visitorId)
          \/ ~Truthy(s.sessionData.globalVisitorId)
  THEN s
  ELSE IF SizeOf(s.eventQueue) > MAX_PAYLOAD_SIZE
  THEN sendBatchDataRL([s EXCEPT !.eventQueue = SecondHalf(s.eventQueue)],
                       FirstHalf(s.eventQueue), useBeacon)
  ELSE [sendBatchDataRL(s, s.eventQueue, useBeacon) EXCEPT
          !.eventQueue = << >>, !.batchTimer = "null"]

captureEventImmediate(s, eventType, data) ==
  With(IF Len(s.eventQueue) >= MAX_QUEUE_SIZE THEN sendBatchRL(s, FALSE) ELSE s,
       LAMBDA t:
         With([t EXCEPT !.eventQueue =
                          Append(@, [Event(t.nextId, eventType, 1, FALSE)
                                       EXCEPT !.data = data]),
                        !.nextId = @ + 1],
              LAMBDA u:
                With(IF eventType \in ActivityTypes THEN updateActivityRL(u) ELSE u,
                     LAMBDA v:
                       IF Len(v.eventQueue) >= MAX_BATCH_SIZE
                       THEN sendBatchRL(v, FALSE)
                       ELSE IF v.batchTimer = "null"
                       THEN [v EXCEPT !.batchTimer = "armed"]
                       ELSE v)))

\* throttleTimers without the timer of eventType (clearTimeout, and set
\* replacing the entry of the Map)
ClearDebounce(timers, eventType) ==
  {tm \in timers : tm.eventType # eventType}

\* throttleTimers after a captureEvent(eventType, data) that would leave a
\* pending timer of the type alone, without clearTimeout and a new timer
KeepDebounce(timers, eventType, data) ==
  IF \E tm \in timers : tm.eventType = eventType THEN timers
  ELSE timers \cup {[eventType |-> eventType, data |-> data,
                     left |-> DEBOUNCE_DELAY]}

\* throttleTimers with the timer started by captureEvent(eventType, data)
RestartDebounce(timers, eventType, data) ==
  ClearDebounce(timers, eventType)
    \cup {[eventType |-> eventType, data |-> data, left |-> DEBOUNCE_DELAY]}

\* captureEvent(eventType, data) for the types that are not throttled by time
\* (scroll and mousemove are): input and resize wait for the debounce timer,
\* whose callback holds the data of the call that started it
captureEventData(s, eventType, data) ==
  IF ~s.isInitialized \/ ~Truthy(s.sessionId) \/ s.sessionEnded THEN s
  ELSE IF eventType \in {"input", "resize"}
  THEN [s EXCEPT !.throttleTimers = RestartDebounce(@, eventType, data)]
  ELSE captureEventImmediate(s, eventType, data)

\* captureEvent(eventType) with the default data
captureEventRL(s, eventType) == captureEventData(s, eventType, 0)

endSessionRL(s, reason) ==
  IF s.sessionEnded THEN s
  ELSE With([s EXCEPT !.sessionEnded = TRUE,
                      !.endReason = reason,
                      !.inactivityTimer = "null",
                      !.visibilityTimer = "null",
                      !.storage = IF ~s.storageBroken /\ s.projectId # "null"
                                  THEN [@ EXCEPT !["session"] = NullId,
                                                 !["timestamp"] = NullId]
                                  ELSE @],
            LAMBDA t: sendBatchRL(captureEventRL(t, "session_end"), TRUE))

\* ---- configuration
\* The configurations passed to init.  projectId: absent, not of the UUID
\* format, or the UUID of project p1; userId: absent, a string, 0, an object;
\* debug: a boolean, a string.
ConfigsRL ==
  [projectId : {"absent", "malformed", "p1"},
   userId : {"absent", "string", "zero", "object"},
   debug : {"boolean", "string"},
   batchSize : {Absent, Num(1000, 5), Num(1001, 0)},
   flushInterval : {Absent, Num(999, 5)}]

\* parseInt(value) is outside lo..hi
OutOfRange(value, lo, hi) == value.whole < lo \/ value.whole > hi

\* the messages that validateConfig returns
validateConfig(config) ==
  (IF config.projectId = "absent" THEN {"projectId is required"}
   ELSE IF config.projectId = "malformed" THEN {"projectId must be a valid UUID"}
   ELSE {})
  \cup (IF config.userId = "object" THEN {"userId must be a string"} ELSE {})
  \cup (IF config.debug = "string" THEN {"debug must be a boolean"} ELSE {})
  \cup (IF config.batchSize.kind # "absent" /\ OutOfRange(config.batchSize, 1, 1000)
        THEN {"batchSize must be a number between 1 and 1000"} ELSE {})
  \cup (IF /\ config.flushInterval.kind # "absent"
           /\ OutOfRange(config.flushInterval, 1000, 30000)
        THEN {"flushInterval must be between 1000ms and 30000ms"} ELSE {})

\* WhysRecorder.init(config) of part_001, that is initializeRecorder: the
\* guard, validation, the identifiers, the state, setupEventListeners (counted
\* in setupCount) and startInactivityTimer
initializeRecorder(s, config) ==
  IF s.initializationPromise # "null" THEN [s EXCEPT !.lastInit = "pending"]
  ELSE IF validateConfig(config) # {}
  THEN [s EXCEPT !.initializationState.error = validateConfig(config),
                 !.lastInit = "rejected"]
  ELSE With(getOrCreateSessionIdRL(getOrCreateVisitorIdsRL(s)),
            LAMBDA t:
              With([t EXCEPT !.projectId = config.projectId,
                             !.userId = IF config.userId = "string" THEN "u1"
                                        ELSE "null",
                             !.sessionId = t.retId,
                             !.listeners = TRUE,
                             !.setupCount = @ + 1],
                   LAMBDA u:
                     [startInactivityTimerRL(u) EXCEPT
                        !.sessionData = [set |-> TRUE, projectId |-> u.projectId,
                                         sessionId |-> u.sessionId,
                                         visitorId |-> u.visitorId,
                                         globalVisitorId |-> u.globalVisitorId,
                                         userId |-> u.userId],
                        !.isInitialized = TRUE,
                        !.initializationState.configValidated = TRUE,
                        !.initializationState.idsGenerated = TRUE,
                        !.initializationState.initialized = TRUE,
                        !.lastInit = "resolved"]))

\* ---- the promise callbacks of sendBatchWithRetry and sendBatchData
\* .catch of sendBatchData
BatchFailed(s) ==
  [s EXCEPT !.networkErrorCount = Bump(@),
            !.recorderDisabled = @ \/ Bump(s.networkErrorCount) >= MAX_NETWORK_ERRORS_RL]

\* The 429 branch of sendBatchWithRetry for batch i, whose response carries
\* Retry-After retryAfter.  The response counts in retryCount and
\* consecutiveErrors and sets lastRetryDelay; below MAX_RETRIES the request
\* waits for lastRetryDelay and is sent again, else the error thrown reaches
\* the catch block, which counts it again.
RateLimited(s, i, retryAfter) ==
  With([s EXCEPT !.rateLimitState.retryCount = CountRetry(@),
                 !.rateLimitState.lastRetryDelay =
                    calculateRetryDelay(@, retryAfter),
                 !.rateLimitState.consecutiveErrors = CountRetry(@)],
       LAMBDA t:
         IF t.rateLimitState.retryCount < MAX_RETRIES
         THEN [t EXCEPT !.batches[i].status = "waiting",
                        !.batches[i].retryAfter = retryAfter,
                        !.batches[i].delay = t.rateLimitState.lastRetryDelay]
         ELSE BatchFailed([t EXCEPT !.rateLimitState.consecutiveErrors =
                                      CountRetry(@),
                                    !.batches[i].status = "dropped"]))

\* The continuation of sendBatchWithRetry after its fetch of batch i; the 429
\* here carries no Retry-After.  A success resets rateLimitState.
BatchResponded(s, i, kind) ==
  IF kind = "429"
  THEN RateLimited(s, i, 0)
  ELSE IF kind = "ok"
  THEN [s EXCEPT !.rateLimitState = NoRateLimit,
                 !.batches[i].status = "delivered",
                 !.batches[i].only429 = FALSE]
  ELSE BatchFailed([s EXCEPT !.rateLimitState.consecutiveErrors =
                               IF kind = "failure" THEN CountRetry(@) ELSE @,
                             !.batches[i].status = "failed",
                             !.batches[i].only429 = FALSE])

\* ------------------------------------------------------------------ actions
\* the run is cut off once MaxEvents events were accepted or MaxSent payloads
\* were handed to the transport (a disabled recorder hands none)
Bounded == nextId <= MaxEvents /\ (Len(sent) < MaxSent \/ recorderDisabled)

\* a visitor returning within the inactivity window
ReturningStorage ==
  [EmptyStorage EXCEPT !["session"] = Uuid(0), !["timestamp"] = Stamp("fresh"),
                       !["visitor"] = Uuid(0), !["globalVisitor"] = Uuid(0)]

InitialStorages ==
  { EmptyStorage, ReturningStorage,
    [ReturningStorage EXCEPT !["timestamp"] = Stamp("expired")],
    [ReturningStorage EXCEPT !["session"] = GarbageId, !["visitor"] = GarbageId] }

\* the script has been evaluated on a page whose localStorage holds one of stored
Loaded(stored) ==
  /\ globalErrorCount = 0
  /\ recorderDisabled = FALSE
  /\ networkErrorCount = 0
  /\ initializationAttempts = 0
  /\ isInitialized = FALSE
  /\ projectId = "null"
  /\ userId = "null"
  /\ sessionId = NullId
  /\ visitorId = NullId
  /\ globalVisitorId = NullId
  /\ eventQueue = << >>
  /\ batchTimer = "null"
  /\ sessionData = NoSessionData
  /\ sessionEnded = FALSE
  /\ initializationPromise = "null"
  /\ inactivityTimer = "null"
  /\ visibilityTimer = "null"
  /\ healthReportTimer = "armed"
  /\ listeners = FALSE
  /\ urlCheckPending = FALSE
  /\ loadCheckPending = TRUE
  /\ storage \in stored
  /\ hidden = FALSE
  /\ consoleBroken = FALSE
  /\ fetchBroken = FALSE
  /\ storageBroken = FALSE
  /\ inFlight = 0
  /\ sent = << >>
  /\ healthSent = [h \in HealthTypes |-> 0]
  /\ truncations = 0
  /\ disableCount = 0
  /\ disableReason = "none"
  /\ endReason = "none"
  /\ originalPushCalled = "none"
  /\ escaped = FALSE
  /\ lastOp = "load"
  /\ lastInit = "none"
  /\ nextId = 1
  /\ nextUuid = 1
  /\ inactivityLeft = 0
  /\ idle = 0
  /\ throttleTimers = {}
  /\ rateLimitState = NoRateLimit
  /\ initializationState = NotInitialized
  /\ batches = << >>
  /\ setupCount = 0
  /\ lastConfig = NoConfig
  /\ executions = 0
  /\ cryptoBroken = FALSE
  /\ returned = "none"

Init == Loaded(InitialStorages)

InitFirstVisit == Loaded({EmptyStorage})

InitWith(configs) == \E config \in configs : Commit(InitCall(St, config), "init")

InitAction == InitWith(Configs)

InitProject == InitWith({"p1"})

\* the records localStorage may hold for the session of the project
StoredRecords ==
  { [EmptyStorage EXCEPT !["session"] = id, !["timestamp"] = stamp] :
      id \in {NullId, Uuid(0), GarbageId},
      stamp \in {NullId, Stamp("fresh"), Stamp("expired"), Stamp("nan")} }

\* a call of getOrCreateSessionId, as init makes it
GetSessionId ==
  /\ nextUuid <= MaxUuids
  /\ Commit(SessionIdCall(St), "getOrCreateSessionId")

\* an earlier page of the site, or the host page, leaves a record in localStorage
HostStores ==
  \E stored \in StoredRecords :
    Commit([St EXCEPT !.storage = stored], "hostStores")

\* time passes: a timestamp just written ages, an aged one expires
TimePasses ==
  /\ storage["timestamp"].kind \in {"now", "fresh"}
  /\ Commit([St EXCEPT !.storage["timestamp"] =
                          Stamp(IF @.kind = "now" THEN "fresh" ELSE "expired")],
            "timePasses")

\* the host page calls init once, with a projectId
FirstInit == initializationAttempts = 0 /\ InitWith({"p1"})

\* the host page calls init again, for another project
InitOther == initializationAttempts > 0 /\ InitWith({"p2"})

Identify == \E u \in UserIds : Bounded /\ Commit(IdentifyCall(St, u), "identify")

TrackWith(data) ==
  \E d \in data : Bounded /\ Commit(TrackCall(St, d.size, d.bad), "track")

Track == TrackWith(CustomData)

TrackPlain == TrackWith({PlainData})

\* track with a payload that may be circular
TrackFaulty == TrackWith({PlainData, BadData})

\* track with payloads of every serialized size
TrackSized == TrackWith({PlainData, MidData, BigData})

PublicSendBatch == Bounded /\ Commit(SendBatchCall(St), "_sendBatch")

PublicDisable == Commit(DisableCall(St), "_disable")

EmergencyCleanRestart == Commit(EmergencyCleanRestartCall(St), "_emergencyCleanRestart")

Click == listeners /\ Bounded /\ Commit(ClickHandler(St), "click")

VisibilityChange ==
  /\ Bounded
  /\ LET flipped == [St EXCEPT !.hidden = ~hidden]
     IN Commit(IF listeners THEN handleVisibilityChange(flipped) ELSE flipped,
               "visibilitychange")

BeforeUnload == listeners /\ Bounded /\ Commit(UnloadHandler(St, "page_unload"), "beforeunload")

PageHide == listeners /\ Bounded /\ Commit(UnloadHandler(St, "page_hide"), "pagehide")

\* the host page calls history.pushState or history.replaceState
HostPushState ==
  Commit(IF listeners THEN PushStateOverride([St EXCEPT !.originalPushCalled = "no"])
         ELSE [St EXCEPT !.originalPushCalled = "yes"],
         "pushState")

UrlCheckFire ==
  /\ urlCheckPending
  /\ Bounded
  /\ \E changed \in BOOLEAN :
       Commit(checkUrlChange([St EXCEPT !.urlCheckPending = FALSE], changed),
              "checkUrlChange")

InactivityTimerFire ==
  /\ inactivityTimer = "armed"
  /\ Bounded
  /\ Commit(InactivityCallback([St EXCEPT !.inactivityTimer = "stale"]),
            "inactivityTimer")

VisibilityTimerFire ==
  /\ visibilityTimer = "armed"
  /\ Bounded
  /\ Commit(VisibilityCallback([St EXCEPT !.visibilityTimer = "stale"]),
            "visibilityTimer")

BatchTimerFire ==
  /\ batchTimer = "armed"
  /\ Bounded
  /\ Commit(BatchCallback([St EXCEPT !.batchTimer = "stale"]), "batchTimer")

HealthReportTimerFire ==
  /\ healthReportTimer = "armed"
  /\ Bounded
  /\ Commit(reportHealthMetrics([St EXCEPT !.healthReportTimer = "stale"]),
            "healthReportTimer")

LoadCheckFire ==
  /\ loadCheckPending
  /\ Commit(LoadCheckCallback([St EXCEPT !.loadCheckPending = FALSE]), "loadCheck")

NetworkResponse ==
  /\ inFlight > 0
  /\ \E kind \in ResponseKinds :
       Commit(ResponseCallbacks([St EXCEPT !.inFlight = @ - 1], kind),
              IF kind = "ok" THEN "response" ELSE "failedResponse")

\* The outcomes of the successive executions of an operation that is passed to
\* safeExecute: each execution throws or returns a value.
Plans == { <<"throw", "throw">>, <<"throw", "return">>, <<"return", "return">> }

\* one execution of the operation
Operation(s, plan) ==
  With([s EXCEPT !.executions = @ + 1],
       LAMBDA t: IF plan[t.executions] = "throw" THEN Throw(t)
                 ELSE [t EXCEPT !.retOk = TRUE])

\* safeExecute(fn, context, isCritical) is called with some operation
GuardedCall ==
  \E plan \in Plans, isCritical \in BOOLEAN :
    Commit(IF isCritical
           THEN safeExecuteCritical(St, LAMBDA t: Operation(t, plan))
           ELSE safeExecute(St, LAMBDA t: Operation(t, plan)),
           IF isCritical THEN "safeExecuteCritical" ELSE "safeExecute")

\* ---- src/unnamed/part_001
\* WhysRecorder.init with any configuration
InitRL ==
  /\ setupCount < MaxSetups
  /\ \E config \in ConfigsRL :
       Commit(initializeRecorder([St EXCEPT !.lastConfig = config], config), "init")

\* the first init of a page that only names its project
InitPlainRL ==
  /\ ~isInitialized
  /\ Commit(initializeRecorder(
              [St EXCEPT !.lastConfig = [NoConfig EXCEPT !.projectId = "p1"]],
              [NoConfig EXCEPT !.projectId = "p1"]),
            "init")

\* a listener or WhysRecorder.track calls captureEvent
CaptureRL ==
  /\ isInitialized
  /\ Bounded
  /\ \E eventType \in {"click", "input", "custom"} :
       Commit(captureEventRL(St, eventType), "capture")

\* the click listener
ClickRL ==
  /\ isInitialized
  /\ Bounded
  /\ Commit(captureEventRL(St, "click"), "click")

\* The callback of the inactivity timer runs when its delay has passed; idle
\* is Date.now() - lastActivityTime.
InactivityTimerDueRL ==
  /\ inactivityTimer = "armed"
  /\ inactivityLeft = 0
  /\ Commit(IF ~sessionEnded /\ idle >= INACTIVITY_TIMEOUT
            THEN endSessionRL([St EXCEPT !.inactivityTimer = "stale"],
                              "inactivity_timeout")
            ELSE [St EXCEPT !.inactivityTimer = "stale"],
            "inactivityTimer")

\* the input and resize listeners: captureEvent with the data of the element
InputRL ==
  /\ isInitialized
  /\ Bounded
  /\ \E eventType \in {"input", "resize"}, data \in {1, 2} :
       Commit(captureEventData(St, eventType, data),
              IF data = 1 THEN "input1" ELSE "input2")

\* the debounce timer of an input or resize event fires when its delay has
\* passed
DebounceTimerFire ==
  /\ Bounded
  /\ \E tm \in throttleTimers :
       /\ tm.left = 0
       /\ Commit([captureEventImmediate(St, tm.eventType, tm.data) EXCEPT
                    !.throttleTimers = ClearDebounce(@, tm.eventType)],
                 "debounceTimer")

BatchTimerFireRL ==
  /\ batchTimer = "armed"
  /\ Bounded
  /\ Commit(sendBatchRL([St EXCEPT !.batchTimer = "stale"], FALSE), "batchTimer")

\* the beforeunload and pagehide listeners
UnloadRL ==
  /\ listeners
  /\ Bounded
  /\ \E reason \in {"page_unload", "page_hide"} :
       Commit(IF ~sessionEnded THEN endSessionRL(St, reason) ELSE St, "unload")

\* the endpoint answers the request of batch i
BatchResponse ==
  \E i \in 1..Len(batches) :
    /\ batches[i].status = "inflight"
    /\ \E kind \in {"429", "ok", "http_error", "failure"} :
         Commit(BatchResponded(St, i, kind), "batchResponse")

\* the delay after a 429 has passed: sendBatchWithRetry fetches again
RetryTimerFire ==
  \E i \in 1..Len(batches) :
    /\ batches[i].status = "waiting"
    /\ Commit([St EXCEPT !.batches[i].status = "inflight",
                         !.batches[i].tx = @ + 1,
                         !.batches[i].retryAfter = 0,
                         !.batches[i].delay = 0],
              "retryTimer")

\* the endpoint answers the request of batch i with 429 and a Retry-After
RateLimitResponse ==
  \E i \in 1..Len(batches) :
    /\ batches[i].status = "inflight"
    /\ \E retryAfter \in RetryAfters :
         Commit(RateLimited(St, i, retryAfter), "rateLimit")

\* the inactivity timer fires when its delay has passed
InactivityTimerDue == inactivityLeft = 0 /\ InactivityTimerFire

\* One tick of the clock passes without an event; a timer that is due fires
\* before the next tick.
Tick ==
  /\ idle <= INACTIVITY_TIMEOUT
  /\ ~(inactivityTimer = "armed" /\ inactivityLeft = 0)
  /\ \A tm \in throttleTimers : tm.left > 0
  /\ idle' = idle + 1
  /\ inactivityLeft' = (IF inactivityTimer = "armed" THEN inactivityLeft - 1
                        ELSE inactivityLeft)
  /\ throttleTimers' = {[tm EXCEPT !.left = @ - 1] : tm \in throttleTimers}
  /\ UNCHANGED << globalErrorCount, recorderDisabled, networkErrorCount,
                  initializationAttempts, isInitialized, projectId, userId, sessionId,
                  visitorId, globalVisitorId, eventQueue, batchTimer, sessionData,
                  sessionEnded, initializationPromise, inactivityTimer, visibilityTimer,
                  healthReportTimer, listeners, urlCheckPending, loadCheckPending,
                  storage, hidden, consoleBroken, fetchBroken, storageBroken,
                  inFlight, sent, healthSent, truncations, disableCount,
                  disableReason, endReason, originalPushCalled, escaped, lastOp,
                  lastInit, nextId, nextUuid, rateLimitState,
                  initializationState, batches, setupCount, lastConfig,
                  executions, returned, cryptoBroken >>

\* the host page installs a crypto.randomUUID that returns malformed strings
CryptoBreaks ==
  /\ ~cryptoBroken
  /\ Commit([St EXCEPT !.cryptoBroken = TRUE], "cryptoBreaks")

\* The environment.  The host page replaces the console methods by ones that
\* throw, and may put working ones back; fetch or AbortController start to
\* throw; access to localStorage starts to throw.
ConsoleBreaks ==
  /\ ~consoleBroken
  /\ UNCHANGED << globalErrorCount, recorderDisabled, networkErrorCount,
                  initializationAttempts, isInitialized, projectId, userId, sessionId,
                  visitorId, globalVisitorId, eventQueue, batchTimer, sessionData,
                  sessionEnded, initializationPromise, inactivityTimer, visibilityTimer,
                  healthReportTimer, listeners, urlCheckPending, loadCheckPending,
                  storage, hidden, fetchBroken, storageBroken, inFlight, sent,
                  healthSent, truncations, disableCount, disableReason, endReason,
                  originalPushCalled, escaped, lastOp, lastInit, nextId, nextUuid,
                  inactivityLeft, idle, throttleTimers, rateLimitState,
                  initializationState, batches, setupCount, lastConfig,
                  executions, returned, cryptoBroken >>
  /\ consoleBroken' = TRUE

\* the host page puts working console methods back
ConsoleRepairs ==
  /\ consoleBroken
  /\ UNCHANGED << globalErrorCount, recorderDisabled, networkErrorCount,
                  initializationAttempts, isInitialized, projectId, userId, sessionId,
                  visitorId, globalVisitorId, eventQueue, batchTimer, sessionData,
                  sessionEnded, initializationPromise, inactivityTimer, visibilityTimer,
                  healthReportTimer, listeners, urlCheckPending, loadCheckPending,
                  storage, hidden, fetchBroken, storageBroken, inFlight, sent,
                  healthSent, truncations, disableCount, disableReason, endReason,
                  originalPushCalled, escaped, lastOp, lastInit, nextId, nextUuid,
                  inactivityLeft, idle, throttleTimers, rateLimitState,
                  initializationState, batches, setupCount, lastConfig,
                  executions, returned, cryptoBroken >>
  /\ consoleBroken' = FALSE

FetchBreaks ==
  /\ ~fetchBroken
  /\ UNCHANGED << globalErrorCount, recorderDisabled, networkErrorCount,
                  initializationAttempts, isInitialized, projectId, userId, sessionId,
                  visitorId, globalVisitorId, eventQueue, batchTimer, sessionData,
                  sessionEnded, initializationPromise, inactivityTimer, visibilityTimer,
                  healthReportTimer, listeners, urlCheckPending, loadCheckPending,
                  storage, hidden, consoleBroken, storageBroken, inFlight, sent,
                  healthSent, truncations, disableCount, disableReason, endReason,
                  originalPushCalled, escaped, lastOp, lastInit, nextId, nextUuid,
                  inactivityLeft, idle, throttleTimers, rateLimitState,
                  initializationState, batches, setupCount, lastConfig,
                  executions, returned, cryptoBroken >>
  /\ fetchBroken' = TRUE

StorageBreaks ==
  /\ ~storageBroken
  /\ UNCHANGED << globalErrorCount, recorderDisabled, networkErrorCount,
                  initializationAttempts, isInitialized, projectId, userId, sessionId,
                  visitorId, globalVisitorId, eventQueue, batchTimer, sessionData,
                  sessionEnded, initializationPromise, inactivityTimer, visibilityTimer,
                  healthReportTimer, listeners, urlCheckPending, loadCheckPending,
                  storage, hidden, consoleBroken, fetchBroken, inFlight, sent,
                  healthSent, truncations, disableCount, disableReason, endReason,
                  originalPushCalled, escaped, lastOp, lastInit, nextId, nextUuid,
                  inactivityLeft, idle, throttleTimers, rateLimitState,
                  initializationState, batches, setupCount, lastConfig,
                  executions, returned, cryptoBroken >>
  /\ storageBroken' = TRUE

\* ----------------------------------------------------------- specifications
\* capture and flush under faults of the console, of fetch and of serialization
SpecFaults ==
  /\ InitFirstVisit
  /\ [][\/ FirstInit
        \/ TrackFaulty
        \/ BatchTimerFire
        \/ PublicSendBatch
        \/ NetworkResponse
        \/ ConsoleBreaks
        \/ ConsoleRepairs
        \/ FetchBreaks]_vars

\* capture, flush and transport of payloads of every size
SpecQueue ==
  /\ InitFirstVisit
  /\ [][\/ FirstInit
        \/ TrackSized
        \/ Click
        \/ BatchTimerFire
        \/ PublicSendBatch
        \/ BeforeUnload
        \/ NetworkResponse]_vars

\* the four ways into the disabled state and the calls that follow it
SpecDisabled ==
  /\ InitFirstVisit
  /\ [][\/ InitProject
        \/ TrackPlain
        \/ Identify
        \/ PublicSendBatch
        \/ BatchTimerFire
        \/ NetworkResponse
        \/ PublicDisable
        \/ FetchBreaks]_vars

\* the session lifecycle and the listeners on the host page
SpecSession ==
  /\ InitFirstVisit
  /\ [][\/ InitProject
        \/ TrackPlain
        \/ VisibilityChange
        \/ BeforeUnload
        \/ PageHide
        \/ HostPushState
        \/ InactivityTimerFire
        \/ VisibilityTimerFire
        \/ BatchTimerFire
        \/ PublicDisable]_vars

\* the public calls with every argument, under faults of console and storage
SpecApi ==
  /\ Init
  /\ [][\/ InitAction
        \/ TrackPlain
        \/ Identify
        \/ PublicDisable
        \/ LoadCheckFire
        \/ ConsoleBreaks
        \/ StorageBreaks]_vars

\* the session under the clock: activity, silence and the inactivity timer
SpecInactivity ==
  /\ InitFirstVisit
  /\ [][\/ FirstInit
        \/ Click
        \/ TrackPlain
        \/ VisibilityChange
        \/ VisibilityTimerFire
        \/ BeforeUnload
        \/ Tick
        \/ InactivityTimerDue]_vars

\* src/unnamed/part_001: init with every configuration, on every storage
SpecConfig ==
  /\ Init
  /\ [][\/ InitRL
        \/ UnloadRL]_vars

\* src/unnamed/part_001: capture, the debounce timers and the end of the session
SpecCapture ==
  /\ InitFirstVisit
  /\ [][\/ InitPlainRL
        \/ CaptureRL
        \/ Tick
        \/ DebounceTimerFire
        \/ InactivityTimerDueRL
        \/ BatchTimerFireRL
        \/ UnloadRL]_vars

\* the queue under payloads of every kind: flushes, split batches and overflow
SpecOrder ==
  /\ InitFirstVisit
  /\ [][\/ FirstInit
        \/ Track
        \/ BatchTimerFire
        \/ ConsoleBreaks
        \/ ConsoleRepairs]_vars

\* the health-report timer and the health requests, with fetch failing
SpecHealth ==
  /\ InitFirstVisit
  /\ [][\/ FirstInit
        \/ TrackFaulty
        \/ HealthReportTimerFire
        \/ BatchTimerFire
        \/ NetworkResponse
        \/ FetchBreaks]_vars

\* bursts of input and resize events against the debounce timers
SpecDebounce ==
  /\ InitFirstVisit
  /\ [][\/ InitPlainRL
        \/ InputRL
        \/ Tick
        \/ DebounceTimerFire
        \/ InactivityTimerDueRL
        \/ BatchTimerFireRL]_vars

\* src/unnamed/part_001: the transport under the answers of the endpoint
SpecTransport ==
  /\ InitFirstVisit
  /\ [][\/ InitPlainRL
        \/ CaptureRL
        \/ BatchTimerFireRL
        \/ BatchResponse
        \/ RetryTimerFire]_vars

\* the retry delays of sendBatchWithRetry under 429 responses with and
\* without a Retry-After header
SpecBackoff ==
  /\ InitFirstVisit
  /\ [][\/ InitPlainRL
        \/ CaptureRL
        \/ BatchResponse
        \/ RateLimitResponse
        \/ RetryTimerFire]_vars

\* safeExecute under operations that throw, with the console and fetch failing
SpecGuard ==
  /\ InitFirstVisit
  /\ [][\/ GuardedCall
        \/ ConsoleBreaks
        \/ ConsoleRepairs
        \/ FetchBreaks]_vars

\* the identifiers of the payloads, on every storage and with a crypto that
\* returns malformed identifiers
SpecIds ==
  /\ Init
  /\ [][\/ InitProject
        \/ TrackPlain
        \/ BatchTimerFire
        \/ PublicSendBatch
        \/ CryptoBreaks]_vars

\* activity on a session whose stored timestamp ages
SpecActivity ==
  /\ InitFirstVisit
  /\ [][\/ FirstInit
        \/ Click
        \/ TimePasses
        \/ Tick
        \/ InactivityTimerDue
        \/ BatchTimerFire]_vars

\* src/unnamed/part_001: the session under the clock.  The page calls init
\* when the script has loaded (lastActivityTime is the time of the load); time
\* passes, and a timer whose delay has passed fires.
SpecTimeout ==
  /\ InitFirstVisit
  /\ [][\/ (idle = 0 /\ InitPlainRL)
        \/ ClickRL
        \/ BatchTimerFireRL
        \/ Tick
        \/ InactivityTimerDueRL]_vars
  /\ WF_vars(Tick)
  /\ WF_vars(InactivityTimerDueRL)

\* the session record in localStorage under getOrCreateSessionId
SpecStorage ==
  /\ Loaded(StoredRecords)
  /\ [][\/ GetSessionId
        \/ HostStores
        \/ TimePasses]_vars

\* init for one project, then for another one
SpecReinit ==
  /\ InitFirstVisit
  /\ [][\/ FirstInit
        \/ InitOther
        \/ TrackPlain
        \/ Click
        \/ BatchTimerFire
        \/ PublicSendBatch
        \/ NetworkResponse
        \/ BeforeUnload]_vars

\* ------------------------------------------------------------------- claims
\* a is a suffix of b
IsSuffix(a, b) == Len(a) <= Len(b) /\ a = SubSeq(b, Len(b) - Len(a) + 1, Len(b))

\* the handles of the three timers
Timers == << batchTimer, inactivityTimer, visibilityTimer >>

\* C1: in every reachable state the length of eventQueue is at most
\* MAX_EVENT_QUEUE_SIZE.
QueueBounded == Len(eventQueue) <= MAX_EVENT_QUEUE_SIZE

\* the queue is full
QueueFull == Len(eventQueue) = MAX_EVENT_QUEUE_SIZE

\* a call of captureEvent that found the queue at its bound, truncated it and
\* accepted its event
TruncationStep == nextId' = nextId + 1 /\ truncations' = 1

\* C2 as stated: when captureEvent accepts an event on a full queue, the queue
\* holds at most half the bound when the call returns and exactly one
\* memory_limit_exceeded signal was emitted.
TruncationLeavesHalf ==
  [][TruncationStep =>
       /\ Len(eventQueue') <= MAX_EVENT_QUEUE_SIZE \div 2
       /\ healthSent'["memory_limit_exceeded"] = 1]_vars

\* C2, amended: when captureEvent accepts an event on a full queue, what the
\* queue holds when the call returns is a suffix of the newest
\* MAX_EVENT_QUEUE_SIZE/2 events, in their order, followed by the accepted
\* event (the flush at the end of the call may have taken events from the
\* front), so at most half the bound plus one; at most one
\* memory_limit_exceeded signal is emitted, and exactly one when the health
\* request does not throw.
TruncationKeepsNewest ==
  [][TruncationStep =>
       /\ Len(eventQueue) >= MAX_EVENT_QUEUE_SIZE
       /\ IsSuffix(IdsOf(eventQueue'),
                   SubSeq(IdsOf(eventQueue),
                          Len(eventQueue) - MAX_EVENT_QUEUE_SIZE \div 2 + 1,
                          Len(eventQueue)) \o << nextId >>)
       /\ Len(eventQueue') <= MAX_EVENT_QUEUE_SIZE \div 2 + 1
       /\ healthSent'["memory_limit_exceeded"] <= 1
       /\ (~fetchBroken => healthSent'["memory_limit_exceeded"] = 1)]_vars

\* the call that truncated the queue returned with half the bound plus one
\* events in it and one signal emitted
TruncatedPlusOne ==
  /\ truncations = 1
  /\ healthSent["memory_limit_exceeded"] = 1
  /\ Len(eventQueue) = MAX_EVENT_QUEUE_SIZE \div 2 + 1

\* C3: every event is in at most one payload handed to the transport, and no
\* event of a handed payload is still in eventQueue.
HandedOnceAndGone ==
  /\ \A i, j \in 1..Len(sent) :
       \A a \in 1..Len(sent[i].ids) :
         \A b \in 1..Len(sent[j].ids) :
           (i # j \/ a # b) => sent[i].ids[a] # sent[j].ids[b]
  /\ \A i \in 1..Len(sent) :
       \A a \in 1..Len(sent[i].ids) :
         \A k \in 1..Len(eventQueue) : eventQueue[k].id # sent[i].ids[a]

\* track has just flushed on the split path: the payload handed last is beyond
\* MAX_PAYLOAD_SIZE, which only the split hands over, and the other half of
\* the queue is still queued
SplitHandOver ==
  /\ lastOp = "track"
  /\ Len(sent) > 0
  /\ sent[Len(sent)].ids # << >>
  /\ sent[Len(sent)].size > MAX_PAYLOAD_SIZE
  /\ eventQueue # << >>

\* C4 as stated: when endSession runs on an initialized, not ended, not
\* disabled session, a session_end event is in the batch that the call hands
\* to the transport.
EndSessionFlushesSessionEnd ==
  [][(isInitialized /\ ~sessionEnded /\ ~recorderDisabled /\ sessionEnded') =>
       /\ Len(sent') = Len(sent) + 1
       /\ "session_end" \in sent'[Len(sent')].types]_vars

\* C5 as stated: the first init with a projectId and no stored session, when
\* it resolves, leaves the recorder initialized with a new well-formed
\* sessionId and a session_start event in eventQueue.
FirstInitQueuesSessionStart ==
  [][(initializationAttempts = 0 /\ storage["session"] = NullId
        /\ lastOp' = "init" /\ lastInit' = "resolved") =>
       /\ isInitialized' /\ ~sessionEnded' /\ ~recorderDisabled'
       /\ uuidRegexTest(sessionId')
       /\ sessionId' # sessionId
       /\ "session_start" \in TypesOf(eventQueue')]_vars

\* C6 as stated: the failure that takes globalErrorCount to MAX_GLOBAL_ERRORS
\* disables the recorder, the disable transition happens once, and track on
\* the disabled recorder changes neither eventQueue, sessionData, userId nor
\* the timers.
ThresholdDisablesOnce ==
  [][/\ (globalErrorCount' >= MAX_GLOBAL_ERRORS => recorderDisabled')
     /\ disableCount' <= 1
     /\ (recorderDisabled /\ lastOp' = "track" =>
           /\ eventQueue' = eventQueue
           /\ sessionData' = sessionData
           /\ userId' = userId
           /\ Timers' = Timers)]_vars

\* C7: once recorderDisabled is true it stays true, eventQueue does not
\* change and no payload is handed to the transport.
DisabledIsTerminal ==
  [][recorderDisabled =>
       /\ recorderDisabled'
       /\ eventQueue' = eventQueue
       /\ sent' = sent]_vars

\* init was called on a disabled recorder with events still queued, and
\* resolved
InitOnDisabled ==
  /\ recorderDisabled
  /\ lastOp = "init"
  /\ lastInit = "resolved"
  /\ eventQueue # << >>

\* C8 as stated: no public call and no callback lets an exception reach the
\* host page.
NoExceptionEscapes == ~escaped

\* C9 as stated: every host call of history.pushState / replaceState invokes
\* the original function.
PushStateCallsOriginal == lastOp = "pushState" => originalPushCalled = "yes"

\* C10 as stated: init with the projectId of the Active session resolves and
\* leaves sessionId, sessionData, eventQueue, the timers and recorderDisabled
\* as they were.
SameProjectInitIsNoOp ==
  [][(isInitialized /\ ~sessionEnded /\ ~recorderDisabled /\ projectId = "p1"
        /\ lastOp' = "init") =>
       /\ lastInit' = "resolved"
       /\ sessionId' = sessionId
       /\ sessionData' = sessionData
       /\ eventQueue' = eventQueue
       /\ Timers' = Timers
       /\ recorderDisabled' = recorderDisabled]_vars

\* C11 as stated: init with another valid projectId on an Active session
\* restarts the lifecycle: projectId and sessionData.projectId are the new
\* one, a session identifier is set, sessionEnded is false and the recorder
\* accepts captures.
OtherProjectInitRestarts ==
  [][(isInitialized /\ ~sessionEnded /\ ~recorderDisabled /\ projectId = "p1"
        /\ initializationAttempts > 0 /\ lastOp' = "init") =>
       /\ projectId' = "p2"
       /\ sessionData'.projectId = "p2"
       /\ Truthy(sessionId')
       /\ ~sessionEnded'
       /\ isInitialized' /\ ~recorderDisabled']_vars

\* C14: getOrCreateSessionId returns the stored identifier exactly when it has
\* the valid format and its timestamp is younger than INACTIVITY_TIMEOUT, and
\* then rewrites the timestamp to now; in every other case it returns a new
\* identifier, and that identifier with the timestamp now is what storage
\* holds afterwards.
SessionContinuedIffFresh ==
  [][lastOp' = "getOrCreateSessionId" =>
       /\ storage'["timestamp"] = Stamp("now")
       /\ storage'["session"] = sessionId'
       /\ uuidRegexTest(sessionId')
       /\ (sessionId' = storage["session"]) <=>
            (/\ uuidRegexTest(storage["session"])
             /\ storage["timestamp"].kind \in {"now", "fresh"})]_vars

\* a stored session was continued, after an earlier call had minted a new one
SessionContinuedAndReplaced ==
  /\ lastOp = "getOrCreateSessionId"
  /\ sessionId = Uuid(0)
  /\ nextUuid > 1

\* C16 as stated: when endSession has completed, for whichever reason, the
\* stored session identifier and its timestamp are absent from storage.
EndSessionClearsStoredSession ==
  [][(~sessionEnded /\ sessionEnded'
        /\ endReason' \in {"inactivity_timeout", "tab_hidden_timeout",
                           "page_unload", "page_hide"}) =>
       /\ storage'["session"] = NullId
       /\ storage'["timestamp"] = NullId]_vars

\* C17: a call of endSession on an ended session, from a timer callback or
\* from the beforeunload / pagehide handlers, changes no variable of the
\* script: nothing is queued, nothing is sent, no error is counted or raised.
EndSessionOnEndedIsNoOp ==
  [][(sessionEnded /\ lastOp' \in {"inactivityTimer", "visibilityTimer",
                                     "beforeunload", "pagehide"}) =>
       /\ eventQueue' = eventQueue
       /\ sent' = sent
       /\ inFlight' = inFlight
       /\ globalErrorCount' = globalErrorCount
       /\ ~escaped'
       /\ endReason' = endReason
       /\ batchTimer' = batchTimer
       /\ storage' = storage
       /\ sessionData' = sessionData
       /\ recorderDisabled' = recorderDisabled
       /\ healthSent' = [h \in HealthTypes |-> 0]]_vars

\* pagehide has followed the beforeunload that ended the session
SecondUnloadHandlerRan ==
  /\ sessionEnded
  /\ endReason = "page_unload"
  /\ lastOp = "pagehide"

\* C18: every failed transmission (HTTP status not OK, or a failure of the
\* network) adds one to networkErrorCount and every successful response
\* resets it to zero; nothing else changes it; the failure that brings it to
\* MAX_NETWORK_ERRORS, and no earlier one, disables the recorder with reason
\* network_error_threshold.
NetworkBreakerTrips ==
  [][/\ (inFlight' < inFlight /\ lastOp' = "failedResponse" /\ ~recorderDisabled) =>
          /\ networkErrorCount' = networkErrorCount + 1
          /\ (networkErrorCount' = MAX_NETWORK_ERRORS) =>
               (recorderDisabled' /\ disableReason' = "network_error_threshold")
          /\ (networkErrorCount' < MAX_NETWORK_ERRORS) =>
               (disableReason' # "network_error_threshold")
     /\ (inFlight' < inFlight /\ lastOp' = "response") => (networkErrorCount' = 0)
     /\ (inFlight' >= inFlight) => (networkErrorCount' = networkErrorCount)]_vars

\* the breaker has tripped on the last of MAX_NETWORK_ERRORS failures
NetworkBreakerTripped ==
  /\ lastOp = "failedResponse"
  /\ recorderDisabled
  /\ disableReason = "network_error_threshold"
  /\ networkErrorCount = MAX_NETWORK_ERRORS

NotWithin(value, lo, hi) ==
  /\ value.kind # "absent"
  /\ \/ 10 * value.whole + value.frac < 10 * lo
     \/ 10 * value.whole + value.frac > 10 * hi

\* the configuration violates one of the rules of validation
FailsValidation(config) ==
  \/ config.projectId \in {"absent", "malformed"}
  \/ config.userId \in {"zero", "object"}
  \/ config.debug = "string"
  \/ NotWithin(config.batchSize, 1, 1000)
  \/ NotWithin(config.flushInterval, 1000, 30000)

\* C12 as stated: an init that repeats the valid configuration of the init
\* that has just resolved performs no initialization step: no identifier is
\* derived, setupEventListeners and startInactivityTimer do not run again.
RepeatedInitRunsNothing ==
  [][(/\ lastOp = "init" /\ lastInit = "resolved"
      /\ lastOp' = "init" /\ lastConfig' = lastConfig
      /\ ~FailsValidation(lastConfig)) =>
       /\ lastInit' = "resolved"
       /\ setupCount' = setupCount
       /\ nextUuid' = nextUuid
       /\ storage' = storage
       /\ inactivityTimer' = inactivityTimer]_vars

\* C13 as stated: init with a configuration that violates a rule of
\* validation is rejected with a message naming a violation, and leaves the
\* identifiers, sessionData, isInitialized, the listeners, the timers and
\* storage as they were.
InvalidConfigRejected ==
  [][(lastOp' = "init" /\ FailsValidation(lastConfig')) =>
       /\ lastInit' = "rejected"
       /\ initializationState'.error # {}
       /\ UNCHANGED << projectId, sessionId, visitorId, globalVisitorId,
                       sessionData, isInitialized, listeners, setupCount,
                       inactivityTimer, visibilityTimer, batchTimer, storage >>]_vars

\* C19 as stated: a batch whose every transmission was answered with 429 is
\* transmitted at most MAX_RETRIES times.
RetriesBoundedPerBatch ==
  \A i \in 1..Len(batches) :
    batches[i].only429 => batches[i].tx <= MAX_RETRIES

\* C20 as stated: once the session is ended no event is accepted, eventQueue
\* does not grow and no batch timer is armed.
NoCaptureAfterSessionEnd ==
  [][sessionEnded =>
       /\ nextId' = nextId
       /\ Len(eventQueue') <= Len(eventQueue)
       /\ (batchTimer' = "armed" => batchTimer = "armed")]_vars

\* a step of a handler that called safeExecute (the console and fetch change
\* only between handlers)
GuardedCallStep ==
  /\ lastOp' \in {"safeExecute", "safeExecuteCritical"}
  /\ consoleBroken' = consoleBroken
  /\ fetchBroken' = fetchBroken

\* the first execution of the operation of the guarded call threw
FirstExecutionThrew == ~(executions' = 1 /\ returned' = "value")

\* C21 as stated: when safeExecute is called on an enabled recorder and the
\* operation throws on its first execution, a critical operation is executed
\* exactly once more, whatever globalErrorCount is below the threshold, and
\* one that is not critical is not executed again; the call returns null
\* unless an execution succeeded.  (Stated for a working console and a call
\* that leaves the recorder enabled.)
CriticalRetriesOnce ==
  [][(/\ GuardedCallStep /\ FirstExecutionThrew
      /\ ~recorderDisabled /\ ~recorderDisabled' /\ ~consoleBroken) =>
       /\ executions' = (IF lastOp' = "safeExecuteCritical" THEN 2 ELSE 1)
       /\ returned' \in {"value", "null"}
       /\ (executions' = 1 => returned' = "null")]_vars

\* C22 as stated: a guarded call emits one error_threshold_warning health
\* event for each multiple of the modulus below MAX_GLOBAL_ERRORS that
\* globalErrorCount reaches during the call, whether a first execution or the
\* retry of a critical operation took it there.  (Stated for a working
\* console and a working fetch.)
WarningAtEveryMultiple ==
  [][(GuardedCallStep /\ ~recorderDisabled /\ ~consoleBroken /\ ~fetchBroken) =>
       healthSent'["error_threshold_warning"] =
         Cardinality({ n \in (globalErrorCount + 1)..globalErrorCount' :
                         n % ERROR_WARNING_MODULUS = 0 /\ n < MAX_GLOBAL_ERRORS })]_vars

\* C23 as stated: while the session is active and the recorder enabled, the
\* events that are queued are flushed when the queue reaches BATCH_SIZE or
\* when the batch timer armed for the oldest of them fires: a flush is pending
\* for every queue that holds events, also after a flush that took the split
\* path or did not clear the queue.
UnflushedEventsHaveTimer ==
  (isInitialized /\ ~sessionEnded /\ ~recorderDisabled /\ eventQueue # << >>) =>
    batchTimer = "armed"

\* C24 as stated: every payload that sendBatch hands to the transport has a
\* serialized size of at most MAX_PAYLOAD_SIZE.
PayloadsWithinCap == \A i \in 1..Len(sent) : sent[i].size <= MAX_PAYLOAD_SIZE

BeaconPlaces(payloads, n, id) ==
  { p \in { <<i, a>> : i \in (n + 1)..Len(payloads), a \in 1..MaxEvents } :
      /\ p[2] <= Len(payloads[p[1]].ids)
      /\ payloads[p[1]].ids[p[2]] = id
      /\ payloads[p[1]].beacon }

\* C26 as stated: when endSession has run on an active session of an enabled
\* recorder, eventQueue is empty and every event that was queued when it was
\* called has been handed over exactly once, in beacon mode.
EndSessionFlushesQueue ==
  [][(isInitialized /\ ~sessionEnded /\ sessionEnded'
        /\ ~recorderDisabled /\ ~recorderDisabled') =>
       /\ eventQueue' = << >>
       /\ \A k \in 1..Len(eventQueue) :
            Cardinality(BeaconPlaces(sent', Len(sent), eventQueue[k].id)) = 1]_vars

\* the callbacks of the inactivity, visibility and batch timers
TimerCallbacks == {"inactivityTimer", "visibilityTimer", "batchTimer"}

\* C27: when endSession has completed, the handles of the inactivity, the
\* visibility and the batch timer are null and none of them is pending; they
\* stay so while the session is ended, and no callback of these timers runs
\* on an ended session.
EndSessionCancelsTimers ==
  [][/\ (~sessionEnded /\ sessionEnded') => Timers' = << "null", "null", "null" >>
     /\ sessionEnded => (Timers' = Timers /\ lastOp' \notin TimerCallbacks)]_vars

\* the page was unloaded while it was hidden and held a tracked event: the
\* three timers were pending when endSession ran
EndedWithTimersPending ==
  /\ sessionEnded
  /\ endReason = "page_unload"
  /\ hidden
  /\ Timers = << "null", "null", "null" >>
  /\ \E i \in 1..Len(sent) : sent[i].beacon /\ "custom" \in sent[i].types

\* C28 as stated: when the recorder becomes disabled none of its timers
\* (inactivity, visibility, batch, health report) is left pending, and no
\* callback of these timers runs on a disabled recorder.
DisableCancelsTimers ==
  [][/\ (~recorderDisabled /\ recorderDisabled') =>
          /\ inactivityTimer' # "armed"
          /\ visibilityTimer' # "armed"
          /\ batchTimer' # "armed"
          /\ healthReportTimer' # "armed"
     /\ recorderDisabled =>
          lastOp' \notin TimerCallbacks \cup {"healthReportTimer"}]_vars

\* C29 as stated: a click that is captured on an active session writes the
\* time of the click to the stored timestamp of the session and restarts the
\* inactivity timer, which is then due INACTIVITY_TIMEOUT after the click.
ActivityIsPersisted ==
  [][(/\ isInitialized /\ ~sessionEnded /\ ~recorderDisabled
      /\ lastOp' = "click" /\ nextId' = nextId + 1) =>
       /\ storage'["timestamp"] = Stamp("now")
       /\ inactivityTimer' = "armed"
       /\ inactivityLeft' = INACTIVITY_TIMEOUT]_vars

\* C30 as stated: an active session of src/unnamed/part_001 that has seen no
\* activity for INACTIVITY_TIMEOUT is eventually ended with reason
\* inactivity_timeout.
InactivityEventuallyEndsRL ==
  (isInitialized /\ ~sessionEnded /\ idle >= INACTIVITY_TIMEOUT)
    ~> (sessionEnded /\ endReason = "inactivity_timeout")

\* C31: when the page becomes hidden during an active session the hidden-tab
\* timer is started; when it fires on a page that is still hidden the session
\* ends with reason tab_hidden_timeout; when the page becomes visible the
\* timer is cancelled and the inactivity timer restarted; a session ends with
\* tab_hidden_timeout only in the callback of a timer started by the hidden
\* period that is still going on.
HiddenTabEndsSession ==
  [][(isInitialized /\ ~sessionEnded /\ ~recorderDisabled) =>
       /\ (lastOp' = "visibilitychange" /\ hidden') => visibilityTimer' = "armed"
       /\ (lastOp' = "visibilitychange" /\ hidden /\ ~hidden') =>
            /\ visibilityTimer' = "null"
            /\ inactivityTimer' = "armed"
            /\ ~sessionEnded'
       /\ (visibilityTimer = "armed" /\ visibilityTimer' = "stale") =>
            (hidden /\ sessionEnded' /\ endReason' = "tab_hidden_timeout")
       /\ (sessionEnded' /\ endReason' = "tab_hidden_timeout") =>
            (hidden /\ visibilityTimer = "armed" /\ lastOp' = "visibilityTimer")
       /\ ~hidden => visibilityTimer # "armed"]_vars

\* the page was hidden, shown and hidden again, and the timer of the second
\* hidden period ended the session
HiddenTwiceThenEnded ==
  /\ sessionEnded
  /\ endReason = "tab_hidden_timeout"
  /\ hidden
  /\ lastOp = "visibilityTimer"
  /\ nextId > 3
  /\ \A i \in 1..Len(sent) : sent[i].types = {"visibility"}

\* C32 as stated: with several batches under way at once, no batch is
\* transmitted more than MAX_RETRIES times, whatever the answers to the other
\* batches and their order.
ConcurrentRetriesBounded ==
  \A i \in 1..Len(batches) : batches[i].tx <= MAX_RETRIES

\* The response to batch i in this step was a 429 that is retried.
RetryScheduled(i) ==
  /\ lastOp' \in {"batchResponse", "rateLimit"}
  /\ batches[i].status = "inflight"
  /\ batches'[i].status = "waiting"

\* C33 as stated: every delay waited before a 429 retry lies within
\* [MIN_RETRY_DELAY, MAX_RETRY_DELAY]; without a usable Retry-After the delay
\* is twice the delay used last, clamped into that range, and is then not
\* below the delay of the 429 response before it.
RetryDelayWithinBounds ==
  [][\A i \in 1..Len(batches) :
       RetryScheduled(i) =>
         /\ batches'[i].delay >= MIN_RETRY_DELAY
         /\ batches'[i].delay <= MAX_RETRY_DELAY
         /\ batches'[i].retryAfter <= 0 =>
              \/ batches'[i].delay = 2 * rateLimitState.lastRetryDelay
              \/ /\ batches'[i].delay = MIN_RETRY_DELAY
                 /\ 2 * rateLimitState.lastRetryDelay < MIN_RETRY_DELAY
              \/ /\ batches'[i].delay = MAX_RETRY_DELAY
                 /\ 2 * rateLimitState.lastRetryDelay > MAX_RETRY_DELAY
         /\ (batches'[i].retryAfter <= 0 /\ rateLimitState.retryCount > 0) =>
              batches'[i].delay >= rateLimitState.lastRetryDelay]_vars

\* C34 as stated: once failed transmissions have reached the network-error
\* threshold and the recorder is disabled, captureEvent accepts no event (none
\* is numbered, none waits for a debounce timer) and sendBatch hands no
\* payload to the transport.
NetworkBreakerStopsRecorderRL ==
  [][(recorderDisabled /\ networkErrorCount >= MAX_NETWORK_ERRORS_RL) =>
       /\ nextId' = nextId
       /\ throttleTimers' = throttleTimers
       /\ Len(sent') = Len(sent)]_vars

\* the events that are queued or were handed to the transport
Held ==
  { [id |-> eventQueue[i].id, eventType |-> eventQueue[i].eventType,
     data |-> eventQueue[i].data] : i \in 1..Len(eventQueue) }
  \cup UNION { { sent[j].events[k] : k \in 1..Len(sent[j].events) } :
               j \in 1..Len(sent) }

\* This step is an accepted captureEvent call of a debounced type with data d.
DebouncedCall(d) ==
  /\ isInitialized /\ Truthy(sessionId) /\ ~sessionEnded
  /\ lastOp' = (IF d = 1 THEN "input1" ELSE "input2")
  /\ idle' = idle

\* A call queues nothing itself; it leaves one timer of its type, which holds
\* the data of this call and has the whole of DEBOUNCE_DELAY to run, whatever
\* timer of that type was pending, and leaves the timers of other types alone.
CallRestartsTimer ==
  \A d \in {1, 2} :
    DebouncedCall(d) =>
      /\ Held' = Held
      /\ \E tm \in throttleTimers' :
           /\ tm.eventType \in {"input", "resize"}
           /\ tm.data = d
           /\ tm.left = DEBOUNCE_DELAY
           /\ throttleTimers' \ {tm} =
                {x \in throttleTimers : x.eventType # tm.eventType}

\* An event of a debounced type is accepted only by a timer of that type whose
\* delay has run out; that timer goes and the one event accepted carries its
\* data.
TimerQueuesItsCall ==
  \A e \in Held' \ Held :
    e.eventType \in {"input", "resize"} =>
      /\ lastOp' = "debounceTimer"
      /\ Held' \ Held = {e}
      /\ \E tm \in throttleTimers :
           /\ tm.left = 0
           /\ tm.eventType = e.eventType
           /\ tm.data = e.data
           /\ throttleTimers' = throttleTimers \ {tm}

\* A pending timer goes only by firing or by a later call of its type.
TimerFiresUnlessReplaced ==
  \A tm \in throttleTimers :
    (\A x \in throttleTimers' : x.eventType # tm.eventType \/ x.data # tm.data
                                  \/ x.left > tm.left) =>
      \/ \E e \in Held' \ Held : e.eventType = tm.eventType /\ e.data = tm.data
      \/ \E d \in {1, 2} : DebouncedCall(d)

\* C35, amended: of a burst of accepted captureEvent calls of one debounced
\* type, each arriving while the timer of the previous call is still pending,
\* exactly one event is queued, when the timer of the last call fires
\* DEBOUNCE_DELAY after that call, with the data of the last call; a call that
\* arrives after the timer of the previous call has fired has its own event.
DebounceCoalescesToLastCall ==
  [][CallRestartsTimer /\ TimerQueuesItsCall /\ TimerFiresUnlessReplaced]_vars

\* C35 as stated: as above, and a call separated from the previous call of its
\* type by at least DEBOUNCE_DELAY leaves that call its own event, so a timer
\* whose delay has run out is not replaced.
DebounceSeparatesAtDelay ==
  [][/\ CallRestartsTimer
     /\ TimerQueuesItsCall
     /\ \A tm \in throttleTimers :
          tm.left = 0 =>
            \/ tm \in throttleTimers'
            \/ \E e \in Held' \ Held :
                 e.eventType = tm.eventType /\ e.data = tm.data]_vars

\* a burst of two input calls with different data was coalesced: its one event
\* carries the data of the second call and is queued after a resize event that
\* went through its own timer
BurstCoalesced ==
  /\ lastOp = "debounceTimer"
  /\ throttleTimers = {}
  /\ nextId = 3
  /\ \E e \in Held : e.id = 1 /\ e.eventType = "resize" /\ e.data = 1
  /\ \E e \in Held : e.id = 2 /\ e.eventType = "input" /\ e.data = 2

\* C36 as stated: while the recorder is enabled, the firing of the
\* health-report timer schedules the next health-report timer, so that health
\* reports recur.
HealthReportTimerIsRescheduled ==
  [][(healthReportTimer = "armed" /\ lastOp' = "healthReportTimer"
        /\ ~recorderDisabled') =>
       healthReportTimer' = "armed"]_vars

\* C37 as stated: a failure while the health report is emitted (no flush of
\* the main queue is part of the step) leaves the global error count, on
\* which the recorder is disabled, the session and recorderDisabled as they
\* were, and the queue gains the health_report event and nothing else.
HealthFailureIsIsolated ==
  [][(healthReportTimer = "armed" /\ lastOp' = "healthReportTimer"
        /\ Len(eventQueue) + 1 < BATCH_SIZE) =>
       /\ globalErrorCount' = globalErrorCount
       /\ recorderDisabled' = recorderDisabled
       /\ sessionEnded' = sessionEnded
       /\ sessionId' = sessionId
       /\ Len(eventQueue') <= Len(eventQueue) + 1
       /\ \A i \in 1..Len(eventQueue) : eventQueue'[i] = eventQueue[i]]_vars

\* the identities of the events handed to the transport, payload after payload
RECURSIVE HandedIds(_)
HandedIds(n) ==
  IF n = 0 THEN << >> ELSE HandedIds(n - 1) \o sent[n].ids

\* C38: events are handed to the transport in capture order: read payload
\* after payload in the order of creation, and within each payload from front
\* to back, the events are in the order in which captureEvent accepted them,
\* and the events still queued follow them in that order.
HandedInCaptureOrder ==
  LET all == HandedIds(Len(sent)) \o IdsOf(eventQueue)
  IN  \A a, b \in 1..Len(all) : a < b => all[a] < all[b]

\* an overflow truncation evicted events 1 and 2, and of the queue it left the
\* first half of a split batch was handed over and the rest is still queued
OrderedAcrossSplitAndOverflow ==
  /\ truncations = 1
  /\ Len(sent) = 1
  /\ sent[1].ids = << 3 >>
  /\ IdsOf(eventQueue) = << 4, 5 >>
  /\ SizeOf(eventQueue) + sent[1].size > MAX_PAYLOAD_SIZE

\* C39 as stated: no payload handed to the transport has an empty events
\* list, on the normal path and on the split path of sendBatch.
NoEmptyPayload == \A i \in 1..Len(sent) : sent[i].ids # << >>

\* C40 as stated: each transition to Disabled, with fetch working, sends
\* exactly one recorder_disabled health event to the health-monitor endpoint
\* and posts the disable notification to the main endpoint once.
DisableIsReported ==
  [][(~recorderDisabled /\ recorderDisabled' /\ ~fetchBroken) =>
       /\ healthSent'["recorder_disabled"] = healthSent["recorder_disabled"] + 1
       /\ healthSent'["disable_notification"] =
            healthSent["disable_notification"] + 1]_vars

====
